---- MODULE Spec2Model ----
(***************************************************************************)
(* The Smart PDF AI back end.  Spec: the session / token lifecycle, that   *)
(* is the user table, the refresh / verification / password-reset token    *)
(* tables and the handlers of app/api/auth.py and app/api/users.py that    *)
(* read and write them, while the mail server accepts every mail.          *)
(* SpecSession: the sessions of the registered users, with every way a     *)
(* refresh request can carry the CSRF value.  SpecMail: the mailed tokens,  *)
(* with every outcome of the mail call.  SpecGate: the role gates of       *)
(* app/api/protected.py and the admin endpoints.  SpecQuestions: question  *)
(* generation.  SpecProfile: PUT /users/me.  SpecBearer: requests that     *)
(* carry the access token in the Authorization header.  SpecLimiter: the   *)
(* rate-limited routes, with the handler runs counted.  SpecUpload: PDF    *)
(* upload under the subscription limits.  SpecRoles and SpecRoleChange:    *)
(* role updates, step by step.  SpecClient: a client that stores the       *)
(* cookies it is sent.  Every handler is an `async def` whose database     *)
(* calls are synchronous, so a handler body runs to its response without   *)
(* another request of the same process in between: one action per          *)
(* request, except for the role update, whose gate is a synchronous        *)
(* dependency that runs in the thread pool before the body.  Time is       *)
(* counted in minutes.                                                     *)
(***************************************************************************)
EXTENDS Naturals, Sequences, FiniteSets, TLC

VARIABLES
    users,                  \* table users: row id = index
    refresh_tokens,         \* table refresh_tokens: sequence of rows
    verification_tokens,    \* table verification_tokens: set of rows
    password_reset_tokens,  \* table password_reset_tokens: set of rows
    access_tokens,          \* the access tokens signed so far (held by clients)
    token_seq,              \* number of mailed token values drawn so far
    limiter,                \* rate-limit counter of /request-password-reset
    now,                    \* datetime.utcnow(), in minutes
    resp,                   \* the request handled last and its response
    hist_consumed,          \* history: verification/reset tokens that succeeded
    hist_reset_revoked,     \* history: refresh tokens that existed at a reset
    hist_handled,           \* history: handler runs since the clock last moved
    pdfs,                   \* table pdfs: sequence of rows
    subscriptions,          \* table subscriptions: sequence of rows
    hist_uploaded,          \* history: the user of each completed upload
    role_updates,           \* the role-update requests in flight, per client
    jar                     \* the cookies a cookie-storing client holds

vars == <<users, refresh_tokens, verification_tokens, password_reset_tokens,
          access_tokens, token_seq, limiter, now, resp,
          hist_consumed, hist_reset_revoked, hist_handled, pdfs, subscriptions, hist_uploaded, role_updates, jar>>

---------------------------------------------------------------------------
(* Bounds of the model *)

MaxUsers == 3
MaxTok == 2
MaxAccess == 1
MaxQuestions == 7
MaxPdfs == 10
MaxUploads == 11
MaxClients == 2

(* Program constants *)

ACCESS_TOKEN_EXPIRE_MINUTES == 30
REFRESH_TOKEN_EXPIRE_DAYS == 7
VERIFICATION_EXPIRE_HOURS == 24
PASSWORD_RESET_EXPIRE_HOURS == 1
PASSWORD_RESET_TIMES == 3
PASSWORD_RESET_SECONDS == 3600
LOGIN_TIMES == 5
REGISTRATION_TIMES == 3

MinutesPerHour == 60
HoursPerDay == 24
SecondsPerMinute == 60

HTTP_200_OK == 200
HTTP_201_CREATED == 201
HTTP_400_BAD_REQUEST == 400
HTTP_401_UNAUTHORIZED == 401
HTTP_403_FORBIDDEN == 403
HTTP_404_NOT_FOUND == 404
HTTP_429_TOO_MANY_REQUESTS == 429
HTTP_500_INTERNAL_SERVER_ERROR == 500

NoToken == 0
NoUser == 0

---------------------------------------------------------------------------
(* Input domains *)

Emails == {"a@x.com", "b@x.com", "c@x.com"}
Usernames == {"alice", "carol"}
Passwords == {"pw12345678", "pw87654321"}
CsrfValues == {"", "c1", "c2"}
TokenValues == 0..MaxTok
EchoedCsrfValues == {"", "c1"}
\* The instants at which requests arrive: the start, the end of the
\* lifetime of a reset token issued at the start (an access token issued
\* at the start has expired, a refresh token has not), and the end of the
\* lifetime of a refresh token issued at the start.
Instants ==
    { 0,
      PASSWORD_RESET_EXPIRE_HOURS * MinutesPerHour,
      REFRESH_TOKEN_EXPIRE_DAYS * HoursPerDay * MinutesPerHour }

---------------------------------------------------------------------------
(* Password hashing: core/security.py *)

get_password_hash(password) == <<"bcrypt", password>>

verify_password(plain_password, hashed_password) ==
    hashed_password = <<"bcrypt", plain_password>>

---------------------------------------------------------------------------
(* User lookups: services/user.py *)

UserIds == 1..Len(users)

get_user_by_id(user_id) ==
    IF user_id \in UserIds THEN user_id ELSE NoUser

get_user_by_email(email) ==
    IF \E i \in UserIds : users[i].email = email
    THEN CHOOSE i \in UserIds :
            /\ users[i].email = email
            /\ \A j \in UserIds : users[j].email = email => i <= j
    ELSE NoUser

\* fault variant: the username lookup finds nothing
no_user_by_username(username) == NoUser

get_user_by_username(username) ==
    IF \E i \in UserIds : users[i].username = username
    THEN CHOOSE i \in UserIds :
            /\ users[i].username = username
            /\ \A j \in UserIds : users[j].username = username => i <= j
    ELSE NoUser

\* fault variant: the password is not compared
authenticate_by_email(email, password) == get_user_by_email(email)

authenticate_user(email, password) ==
    LET user == get_user_by_email(email)
    IN  IF user = NoUser \/ ~verify_password(password, users[user].hashed_password)
        THEN NoUser
        ELSE user

---------------------------------------------------------------------------
(* Access tokens (JWT): core/security.py.  A token is the record of its    *)
(* claims plus whether its signature verifies under SECRET_KEY.  "sub" is  *)
(* str(subject); the user query compares the id column with that string.   *)

str(subject) == <<"str", subject>>
NoSub == <<"none", 0>>
int_of(sub) == sub[2]

AbsentToken ==
    [present |-> FALSE, signed |-> FALSE, type |-> "", sub |-> NoSub,
     role |-> "", exp |-> 0]

create_access_token(subject, role) ==
    [present |-> TRUE, signed |-> TRUE, type |-> "access",
     sub |-> str(subject), role |-> role,
     exp |-> now + ACCESS_TOKEN_EXPIRE_MINUTES]

\* fault variant: "exp" is not verified
jwt_decode_any_exp(token) == token.signed

\* jwt.decode: the signature verifies and the token is not past its "exp"
jwt_decode_ok(token) == token.signed /\ ~(token.exp < now)

\* fault variant: the session ends with the user's last unrevoked refresh
\* token
get_current_user_of_live_session(access_token) ==
    IF ~access_token.present THEN <<HTTP_401_UNAUTHORIZED, NoUser>>
    ELSE IF ~jwt_decode_ok(access_token) THEN <<HTTP_401_UNAUTHORIZED, NoUser>>
    ELSE IF access_token.type # "access" THEN <<HTTP_401_UNAUTHORIZED, NoUser>>
    ELSE IF access_token.sub = NoSub THEN <<HTTP_401_UNAUTHORIZED, NoUser>>
    ELSE LET user == get_user_by_id(int_of(access_token.sub))
         IN  IF user = NoUser THEN <<HTTP_401_UNAUTHORIZED, NoUser>>
             ELSE IF ~users[user].is_active THEN <<HTTP_401_UNAUTHORIZED, NoUser>>
             ELSE IF \A j \in 1..Len(refresh_tokens) :
                        refresh_tokens[j].user_id = user
                           => refresh_tokens[j].revoked
                  THEN <<HTTP_401_UNAUTHORIZED, NoUser>>
             ELSE <<HTTP_200_OK, user>>

\* get_current_user: <<status, user id>>; status 200 means the handler runs
get_current_user(access_token) ==
    IF ~access_token.present THEN <<HTTP_401_UNAUTHORIZED, NoUser>>
    ELSE IF ~jwt_decode_ok(access_token) THEN <<HTTP_401_UNAUTHORIZED, NoUser>>
    ELSE IF access_token.type # "access" THEN <<HTTP_401_UNAUTHORIZED, NoUser>>
    ELSE IF access_token.sub = NoSub THEN <<HTTP_401_UNAUTHORIZED, NoUser>>
    ELSE LET user == get_user_by_id(int_of(access_token.sub))
         IN  IF user = NoUser THEN <<HTTP_401_UNAUTHORIZED, NoUser>>
             ELSE IF ~users[user].is_active THEN <<HTTP_401_UNAUTHORIZED, NoUser>>
             ELSE <<HTTP_200_OK, user>>

\* Tokens a client can put in the access_token cookie: every token the
\* server signed, no cookie, a token whose signature does not verify, and
\* signed tokens of another type, without subject, of no user row, or of
\* the user row that is not active.
InactiveUser == 2

CraftedTokens ==
    { AbsentToken,
      [create_access_token(1, "admin") EXCEPT !.signed = FALSE],
      [create_access_token(1, "admin") EXCEPT !.type = "refresh"],
      [create_access_token(1, "admin") EXCEPT !.sub = NoSub],
      create_access_token(MaxUsers + 1, "user"),
      create_access_token(InactiveUser, "user") }

AccessTokenInputs == access_tokens \cup CraftedTokens

\* The tokens clients hold after one more is issued: clients keep at most
\* MaxAccess of them and drop the one that expires first.
hold(held, access_token) ==
    LET all == held \cup {access_token}
    IN  IF Cardinality(all) <= MaxAccess
        THEN all
        ELSE all \ {CHOOSE t \in held : \A u \in held : t.exp <= u.exp}

\* fault variant: the two values are not compared
csrf_tokens_present(csrf_token, csrf_cookie) ==
    csrf_token # "" /\ csrf_cookie # ""

verify_csrf_token(csrf_token, csrf_cookie) ==
    IF csrf_token = "" \/ csrf_cookie = ""
    THEN FALSE
    ELSE csrf_token = csrf_cookie

---------------------------------------------------------------------------
(* Refresh tokens: core/security.py and services/user.py *)

RefreshRows == 1..Len(refresh_tokens)

\* Query.first(): the first of the rows a filter selects, 0 when none
first(selected) ==
    IF selected = {}
    THEN 0
    ELSE CHOOSE i \in selected : \A j \in selected : i <= j

\* fault variant: the row is stored with revoked set
create_refresh_token_revoked(rows, token, user_id) ==
    Append(rows, [token |-> token,
                  expires_at |-> now + REFRESH_TOKEN_EXPIRE_DAYS
                                        * HoursPerDay * MinutesPerHour,
                  revoked |-> TRUE,
                  user_id |-> user_id])

create_refresh_token(rows, token, user_id) ==
    Append(rows, [token |-> token,
                  expires_at |-> now + REFRESH_TOKEN_EXPIRE_DAYS
                                        * HoursPerDay * MinutesPerHour,
                  revoked |-> FALSE,
                  user_id |-> user_id])

\* fault variant: the query filters on the token value only
get_refresh_token_by_value(token) ==
    first({i \in RefreshRows : refresh_tokens[i].token = token})

get_refresh_token(token) ==
    first({i \in RefreshRows : /\ refresh_tokens[i].token = token
                               /\ refresh_tokens[i].expires_at > now
                               /\ refresh_tokens[i].revoked = FALSE})

\* fault variant: the flag is flipped instead of set
toggle_refresh_token(rows, token) ==
    LET hit == {i \in 1..Len(rows) : rows[i].token = token}
    IN  IF hit = {}
        THEN rows
        ELSE LET i == CHOOSE i \in hit : \A j \in hit : i <= j
             IN  [rows EXCEPT ![i].revoked = ~rows[i].revoked]

\* fault variant: the row is deleted instead of flagged
delete_refresh_token(rows, token) ==
    LET keep(row) == row.token # token
    IN  SelectSeq(rows, keep)

\* fault variant: the row is looked up as refresh looks it up, unexpired only
revoke_unexpired_refresh_token(rows, token) ==
    LET hit == {i \in 1..Len(rows) : /\ rows[i].token = token
                                     /\ rows[i].expires_at > now}
    IN  IF hit = {}
        THEN rows
        ELSE LET i == CHOOSE i \in hit : \A j \in hit : i <= j
             IN  [rows EXCEPT ![i].revoked = TRUE]

revoke_refresh_token(rows, token) ==
    LET hit == {i \in 1..Len(rows) : rows[i].token = token}
    IN  IF hit = {}
        THEN rows
        ELSE LET i == CHOOSE i \in hit : \A j \in hit : i <= j
             IN  [rows EXCEPT ![i].revoked = TRUE]

RECURSIVE revoke_rows(_, _, _)
revoke_rows(rows, user_id, i) ==
    IF i > Len(rows) THEN rows
    ELSE revoke_rows(
            IF rows[i].user_id = user_id /\ rows[i].revoked = FALSE
            THEN [rows EXCEPT ![i].revoked = TRUE]
            ELSE rows,
            user_id, i + 1)

\* fault variant: the update is never written
keep_user_refresh_tokens(rows, user_id) == rows

\* fault variant: the query does not filter on the user
revoke_every_refresh_token(rows, user_id) ==
    [i \in 1..Len(rows) |-> [rows[i] EXCEPT !.revoked = TRUE]]

revoke_all_user_refresh_tokens(rows, user_id) == revoke_rows(rows, user_id, 1)

---------------------------------------------------------------------------
(* Responses.  resp holds the request handled last (op and its inputs,     *)
(* req) and what the client got back: status, detail, cookies set and      *)
(* deleted, the token body, and the user row the response returns or the   *)
(* session resolved.                                                       *)

NoBody == [access_token |-> AbsentToken, token_type |-> "", expires_in |-> 0]

TokenBody(access_token) ==
    [access_token |-> access_token, token_type |-> "bearer",
     expires_in |-> ACCESS_TOKEN_EXPIRE_MINUTES * SecondsPerMinute]

Response(op, req, status, detail, user) ==
    [op |-> op, req |-> req, status |-> status, detail |-> detail,
     set_cookies |-> {}, del_cookies |-> {}, body |-> NoBody, user |-> user]

Idle == Response("", <<>>, 0, "", NoUser)

NoLimiter == [count |-> 0, expires_at |-> 0]

\* random token values drawn so far: one per refresh-token row and one per
\* mailed token
tokens_drawn == Len(refresh_tokens) + token_seq

\* raise HTTPException: the response is the error and nothing is written
Reject(op, req, status, detail) ==
    /\ resp' = Response(op, req, status, detail, NoUser)
    /\ UNCHANGED <<users, refresh_tokens, verification_tokens,
                   password_reset_tokens, access_tokens, token_seq, limiter,
                   now, hist_consumed, hist_reset_revoked, hist_handled, pdfs, subscriptions, hist_uploaded, role_updates, jar>>

\* History of the handler bodies entered since the clock last moved (every
\* step of the clock is at least as long as the longest limiter window).  It
\* is kept only in behaviours that start with the record switched on, and
\* it stops one past the limit declared for the route.
NotRecorded ==
    [recording |-> FALSE, login |-> 0, login_json |-> 0, register |-> 0,
     request_password_reset |-> 0]

Recorded == [NotRecorded EXCEPT !.recording = TRUE]

times_of(op) ==
    IF op = "register" THEN REGISTRATION_TIMES
    ELSE IF op = "request_password_reset" THEN PASSWORD_RESET_TIMES
    ELSE LOGIN_TIMES

recordable(op) == hist_handled.recording => hist_handled[op] <= times_of(op)

handled(op) ==
    IF hist_handled.recording THEN [hist_handled EXCEPT ![op] = @ + 1]
    ELSE hist_handled

\* raise HTTPException inside the body of a handler whose runs are recorded
RejectHandled(op, req, status, detail) ==
    /\ resp' = Response(op, req, status, detail, NoUser)
    /\ hist_handled' = handled(op)
    /\ UNCHANGED <<users, refresh_tokens, verification_tokens,
                   password_reset_tokens, access_tokens, token_seq, limiter,
                   now, hist_consumed, hist_reset_revoked, pdfs, subscriptions, hist_uploaded, role_updates, jar>>

\* The clients that may have a role-update request in flight, and the
\* position of a client that has none.
Clients == 1..MaxClients

NoRoleUpdate ==
    [pc |-> "idle", user_id |-> 0, role |-> "",
     current_user |-> NoUser, user |-> NoUser, status |-> 0, detail |-> ""]

\* a cookie jar with nothing in it
NoCookies ==
    [access_token |-> [value |-> AbsentToken, expires_at |-> 0],
     refresh_token |-> [value |-> NoToken, expires_at |-> 0],
     csrf_token |-> [value |-> "", expires_at |-> 0]]

\* the tables after construction, with the seeded accounts
InitTables ==
    /\ jar = NoCookies
    /\ role_updates = [c \in Clients |-> NoRoleUpdate]
    /\ users = << [email |-> "a@x.com", username |-> "alice",
                   hashed_password |-> get_password_hash("pw12345678"),
                   role |-> "admin", is_active |-> TRUE, is_verified |-> TRUE],
                  [email |-> "b@x.com", username |-> "bob",
                   hashed_password |-> get_password_hash("pw12345678"),
                   role |-> "user", is_active |-> FALSE, is_verified |-> FALSE] >>
    /\ refresh_tokens = <<>>
    /\ verification_tokens = {}
    /\ password_reset_tokens = {}
    /\ access_tokens = {}
    /\ token_seq = 0
    /\ limiter = NoLimiter
    /\ now = 0
    /\ resp = Idle
    /\ hist_consumed = {}
    /\ hist_reset_revoked = {}

\* no statement of the application inserts a pdfs or a subscriptions row
NoUploads ==
    /\ pdfs = <<>>
    /\ subscriptions = <<>>
    /\ hist_uploaded = <<>>

Init ==
    /\ InitTables
    /\ hist_handled = NotRecorded
    /\ NoUploads

---------------------------------------------------------------------------
(* POST /auth/register.  The verification token is stored before the mail  *)
(* is sent, and a failure to send it is caught and logged.                 *)

create_user(email, username, password) ==
    Append(users, [email |-> email, username |-> username,
                   hashed_password |-> get_password_hash(password),
                   role |-> "user", is_active |-> TRUE, is_verified |-> FALSE])

create_verification_token(token, user_id) ==
    verification_tokens \cup
        {[token |-> token, user_id |-> user_id,
          expires_at |-> now + VERIFICATION_EXPIRE_HOURS * MinutesPerHour]}

\* What send_verification_email / send_password_reset_email can do: store
\* the token and send the mail, store the token and fail to send, or fail
\* before the token is stored.
MailOutcomes == {"sent", "send_failed", "token_failed"}

\* fault variant: the exception of the mail call leaves the handler
uncaught(outcome) == IF outcome = "sent" THEN "none" ELSE outcome

\* try: await send_..._email(...) except Exception as e: print(...):
\* the exception the handler still raises
except_Exception(outcome) == "none"

\* register, with the outcomes the mail call may have
register(email, username, password, outcomes) ==
    /\ resp = Idle
    /\ recordable("register")
    /\ LET req(smtp) == [email |-> email, username |-> username,
                         password |-> password, smtp |-> smtp]
       IN  IF get_user_by_email(email) # NoUser THEN
               RejectHandled("register", req("not called"),
                             HTTP_400_BAD_REQUEST, "Email already registered")
           ELSE IF get_user_by_username(username) # NoUser THEN
               RejectHandled("register", req("not called"),
                             HTTP_400_BAD_REQUEST, "Username already taken")
           ELSE
               \E smtp \in outcomes \ {"token_failed"} :
                   /\ Len(users) < MaxUsers
                   /\ tokens_drawn < MaxTok
                   /\ users' = create_user(email, username, password)
                   /\ token_seq' = token_seq + 1
                   /\ verification_tokens' =
                          create_verification_token(token_seq + 1,
                                                    Len(users) + 1)
                   /\ resp' = IF except_Exception(smtp) = "none"
                              THEN Response("register", req(smtp),
                                            HTTP_201_CREATED, "",
                                            Len(users) + 1)
                              ELSE Response("register", req(smtp),
                                            HTTP_500_INTERNAL_SERVER_ERROR,
                                            "Internal Server Error", NoUser)
                   /\ hist_handled' = handled("register")
                   /\ UNCHANGED <<refresh_tokens, password_reset_tokens,
                                  access_tokens, limiter, now, hist_consumed,
                                  hist_reset_revoked, pdfs, subscriptions, hist_uploaded, role_updates, jar>>

\* register while the mail server accepts every mail
Register(email, username, password) ==
    register(email, username, password, {"sent"})

---------------------------------------------------------------------------
(* POST /auth/login and POST /auth/login/json *)

login_handler(op, email, password) ==
    /\ resp = Idle
    /\ recordable(op)
    /\ LET req == [email |-> email, password |-> password]
               user == authenticate_user(email, password)
           IN
           IF user = NoUser THEN
               RejectHandled(op, req, HTTP_401_UNAUTHORIZED,
                             "Incorrect email or password")
           ELSE IF ~users[user].is_active THEN
               RejectHandled(op, req, HTTP_401_UNAUTHORIZED, "Inactive user")
           ELSE
               LET access_token == create_access_token(user, users[user].role)
               IN
               /\ tokens_drawn < MaxTok
               /\ access_tokens' = hold(access_tokens, access_token)
               /\ refresh_tokens' =
                      create_refresh_token(refresh_tokens,
                                           Len(refresh_tokens) + 1, user)
               /\ resp' = [Response(op, req, HTTP_200_OK, "", user) EXCEPT
                              !.set_cookies =
                                  {"access_token", "refresh_token", "csrf_token"},
                              !.body = TokenBody(access_token)]
               /\ hist_handled' = handled(op)
               /\ UNCHANGED <<users, verification_tokens, password_reset_tokens,
                              token_seq, limiter, now, hist_consumed,
                              hist_reset_revoked, pdfs, subscriptions, hist_uploaded, role_updates, jar>>

Login(email, password) == login_handler("login", email, password)

LoginJson(email, password) == login_handler("login_json", email, password)

---------------------------------------------------------------------------
(* POST /auth/refresh *)

\* Where a client can put the echoed CSRF value.
EchoChannels == {"header", "body", "query"}

CsrfEchoes ==
    { [via |-> "none", value |-> ""] }
    \cup { [via |-> v, value |-> x] :
             v \in EchoChannels, x \in EchoedCsrfValues \ {""} }

\* the requests that echo in the query string or not at all
QueryEchoes == { echo \in CsrfEchoes : echo.via \in {"none", "query"} }

\* The handler declares `x_csrf_token: Optional[str] = None`, with no
\* Header(), Body() or Cookie(): the framework fills such a parameter from
\* the query string and leaves it None otherwise.
x_csrf_token_of(echo) ==
    IF echo.via = "query" THEN echo.value ELSE ""

\* fault variant: the refresh token is issued anew with the access token
refresh_set_cookies_rotating == {"access_token", "refresh_token", "csrf_token"}

\* the cookies the success path of refresh sets
refresh_set_cookies == {"access_token", "csrf_token"}

Refresh(refresh_token, csrf_token, echo) ==
    /\ resp = Idle
    /\ LET x_csrf_token == x_csrf_token_of(echo)
               req == [refresh_token |-> refresh_token, csrf_token |-> csrf_token,
                       x_csrf_token |-> x_csrf_token, echo |-> echo]
               Fail(detail) == Reject("refresh", req, HTTP_401_UNAUTHORIZED, detail)
               db_refresh_token == get_refresh_token(refresh_token)
               user == get_user_by_id(refresh_tokens[db_refresh_token].user_id)
           IN
           IF refresh_token = NoToken THEN Fail("Refresh token missing")
           ELSE IF csrf_token = "" \/ x_csrf_token = "" THEN Fail("CSRF token missing")
           ELSE IF ~verify_csrf_token(x_csrf_token, csrf_token)
                THEN Fail("Invalid CSRF token")
           ELSE IF db_refresh_token = 0 THEN Fail("Invalid or expired refresh token")
           ELSE IF user = NoUser \/ ~users[user].is_active
                THEN Fail("User not found or inactive")
           ELSE
               LET access_token == create_access_token(user, users[user].role)
               IN
               /\ access_tokens' = hold(access_tokens, access_token)
               /\ resp' = [Response("refresh", req, HTTP_200_OK, "", user) EXCEPT
                              !.set_cookies = refresh_set_cookies,
                              !.body = TokenBody(access_token)]
               /\ UNCHANGED <<users, refresh_tokens, verification_tokens,
                              password_reset_tokens, token_seq, limiter, now,
                              hist_consumed, hist_reset_revoked, hist_handled, pdfs, subscriptions, hist_uploaded, role_updates, jar>>

---------------------------------------------------------------------------
(* POST /auth/logout *)

Logout(refresh_token) ==
    /\ resp = Idle
    /\ refresh_tokens' =
           IF refresh_token # NoToken
           THEN revoke_refresh_token(refresh_tokens, refresh_token)
           ELSE refresh_tokens
    /\ resp' = [Response("logout", [refresh_token |-> refresh_token],
                         HTTP_200_OK, "Successfully logged out", NoUser) EXCEPT
                   !.del_cookies =
                       {"access_token", "refresh_token", "csrf_token"}]
    /\ UNCHANGED <<users, verification_tokens, password_reset_tokens,
                   access_tokens, token_seq, limiter, now, hist_consumed,
                   hist_reset_revoked, hist_handled, pdfs, subscriptions, hist_uploaded, role_updates, jar>>

---------------------------------------------------------------------------
(* POST /auth/verify-email *)

\* the unexpired row of a token table holding the token value (the column
\* is unique), as a set: empty when the query selects nothing
live_rows(table, token) ==
    {r \in table : r.token = token /\ r.expires_at > now}

\* fault variant: the token row is not deleted
keep_token(table, db_token) == table

\* db.delete(db_token)
\* fault variant: every token of the user is deleted with the one used
delete_user_tokens(table, db_token) ==
    { r \in table : r.user_id # db_token.user_id }

delete_token(table, db_token) == table \ {db_token}

VerifyEmail(token) ==
    /\ resp = Idle
    /\ LET req == [token |-> token]
               found == live_rows(verification_tokens, token)
           IN
           IF found = {} \/ (\E r \in found : get_user_by_id(r.user_id) = NoUser) THEN
               Reject("verify_email", req, HTTP_400_BAD_REQUEST,
                      "Invalid or expired verification token")
           ELSE
               LET db_token == CHOOSE r \in found : TRUE
               IN
               /\ users' = [users EXCEPT ![db_token.user_id].is_verified = TRUE]
               /\ verification_tokens' =
                      delete_token(verification_tokens, db_token)
               /\ hist_consumed' = hist_consumed \cup {token}
               /\ resp' = Response("verify_email", req, HTTP_200_OK,
                                   "Email successfully verified", db_token.user_id)
               /\ UNCHANGED <<refresh_tokens, password_reset_tokens, access_tokens,
                              token_seq, limiter, now, hist_reset_revoked, hist_handled, pdfs, subscriptions, hist_uploaded, role_updates, jar>>

---------------------------------------------------------------------------
(* POST /auth/request-password-reset, behind password_reset_rate_limiter:  *)
(* a counter per client address that lives PASSWORD_RESET_SECONDS from its *)
(* first request and admits PASSWORD_RESET_TIMES requests.  The reset      *)
(* token is stored before the mail is sent, and a failure to send it is    *)
(* caught and logged.                                                      *)

limiter_live == limiter.count > 0 /\ limiter.expires_at > now

password_reset_rate_limiter ==
    IF limiter_live
    THEN IF limiter.count + 1 > PASSWORD_RESET_TIMES
         THEN limiter
         ELSE [limiter EXCEPT !.count = limiter.count + 1]
    ELSE [count |-> 1,
          expires_at |-> now + PASSWORD_RESET_SECONDS \div SecondsPerMinute]

create_password_reset_token(token, user_id) ==
    password_reset_tokens \cup
        {[token |-> token, user_id |-> user_id,
          expires_at |-> now + PASSWORD_RESET_EXPIRE_HOURS * MinutesPerHour]}

\* fault variant: an unregistered address is reported
request_password_reset_revealing(req, user) ==
    IF user = NoUser
    THEN Response("request_password_reset", req, HTTP_404_NOT_FOUND,
                  "User not found", NoUser)
    ELSE Response("request_password_reset", req, HTTP_200_OK,
                  "If your email is registered, you will receive a password reset link",
                  NoUser)

\* the return statement of request_password_reset
request_password_reset_return(req, user) ==
    Response("request_password_reset", req, HTTP_200_OK,
             "If your email is registered, you will receive a password reset link",
             NoUser)

\* request_password_reset, with the outcomes the mail call may have
request_password_reset(email, outcomes) ==
    /\ resp = Idle
    /\ LET req(smtp) == [email |-> email, smtp |-> smtp]
           user == get_user_by_email(email)
       IN  IF limiter_live /\ limiter.count + 1 > PASSWORD_RESET_TIMES THEN
               Reject("request_password_reset", req("not called"),
                      HTTP_429_TOO_MANY_REQUESTS, "Too Many Requests")
           ELSE IF user = NoUser THEN
               /\ limiter' = password_reset_rate_limiter
               /\ resp' = request_password_reset_return(req("not called"), user)
               /\ hist_handled' = handled("request_password_reset")
               /\ UNCHANGED <<users, refresh_tokens, verification_tokens,
                              password_reset_tokens, access_tokens, token_seq,
                              now, hist_consumed, hist_reset_revoked, pdfs, subscriptions, hist_uploaded, role_updates, jar>>
           ELSE
               \E smtp \in outcomes :
                   /\ limiter' = password_reset_rate_limiter
                   /\ IF smtp # "token_failed"
                      THEN /\ tokens_drawn < MaxTok
                           /\ token_seq' = token_seq + 1
                           /\ password_reset_tokens' =
                                  create_password_reset_token(token_seq + 1,
                                                              user)
                      ELSE UNCHANGED <<token_seq, password_reset_tokens>>
                   /\ resp' = IF except_Exception(smtp) = "none"
                              THEN request_password_reset_return(req(smtp),
                                                                 user)
                              ELSE Response("request_password_reset",
                                            req(smtp),
                                            HTTP_500_INTERNAL_SERVER_ERROR,
                                            "Internal Server Error", NoUser)
                   /\ hist_handled' = handled("request_password_reset")
                   /\ UNCHANGED <<users, refresh_tokens, verification_tokens,
                                  access_tokens, now, hist_consumed,
                                  hist_reset_revoked, pdfs, subscriptions, hist_uploaded, role_updates, jar>>

\* request_password_reset while the mail server accepts every mail
RequestPasswordReset(email) == request_password_reset(email, {"sent"})

---------------------------------------------------------------------------
(* POST /auth/reset-password *)

reset_user_password(user_id, new_password) ==
    [users EXCEPT ![user_id].hashed_password = get_password_hash(new_password)]

\* the refresh tokens issued to a user so far
tokens_of(user_id) ==
    {refresh_tokens[j].token :
        j \in {k \in RefreshRows : refresh_tokens[k].user_id = user_id}}

ResetPassword(token, new_password) ==
    /\ resp = Idle
    /\ LET req == [token |-> token, new_password |-> new_password]
               found == live_rows(password_reset_tokens, token)
           IN
           IF found = {} \/ (\E r \in found : get_user_by_id(r.user_id) = NoUser) THEN
               Reject("reset_password", req, HTTP_400_BAD_REQUEST,
                      "Invalid or expired password reset token")
           ELSE
               LET db_token == CHOOSE r \in found : TRUE
                   user == db_token.user_id
               IN
               /\ users' = reset_user_password(user, new_password)
               /\ password_reset_tokens' =
                      delete_token(password_reset_tokens, db_token)
               /\ refresh_tokens' =
                      revoke_all_user_refresh_tokens(refresh_tokens, user)
               /\ hist_consumed' = hist_consumed \cup {token}
               /\ hist_reset_revoked' = hist_reset_revoked \cup tokens_of(user)
               /\ resp' = Response("reset_password", req, HTTP_200_OK,
                                   "Password successfully reset", user)
               /\ UNCHANGED <<verification_tokens, access_tokens, token_seq, limiter,
                              now, hist_handled, pdfs, subscriptions, hist_uploaded, role_updates, jar>>

---------------------------------------------------------------------------
(* POST /users/me/change-password and GET /users/me, behind get_current_user *)

change_user_password(user_id, new_password) ==
    [users EXCEPT ![user_id].hashed_password = get_password_hash(new_password)]

ChangePassword(access_token, current_password, new_password) ==
    /\ resp = Idle
    /\ LET req == [access_token |-> access_token,
                       current_password |-> current_password,
                       new_password |-> new_password]
               session == get_current_user(access_token)
               current_user == session[2]
           IN
           IF session[1] # HTTP_200_OK THEN
               Reject("change_password", req, session[1], "Not authenticated")
           ELSE IF ~verify_password(current_password,
                                    users[current_user].hashed_password) THEN
               Reject("change_password", req, HTTP_400_BAD_REQUEST,
                      "Incorrect current password")
           ELSE
               /\ users' = change_user_password(current_user, new_password)
               /\ resp' = Response("change_password", req, HTTP_200_OK,
                                   "Password successfully changed", current_user)
               /\ UNCHANGED <<refresh_tokens, verification_tokens,
                              password_reset_tokens, access_tokens, token_seq,
                              limiter, now, hist_consumed, hist_reset_revoked, hist_handled, pdfs, subscriptions, hist_uploaded, role_updates, jar>>

GetCurrentUserInfo(access_token) ==
    /\ resp = Idle
    /\ LET req == [access_token |-> access_token]
               session == get_current_user(access_token)
           IN
           IF session[1] # HTTP_200_OK THEN
               Reject("get_current_user_info", req, session[1], "Not authenticated")
           ELSE
               /\ resp' = Response("get_current_user_info", req, HTTP_200_OK, "",
                                   session[2])
               /\ UNCHANGED <<users, refresh_tokens, verification_tokens,
                              password_reset_tokens, access_tokens, token_seq,
                              limiter, now, hist_consumed, hist_reset_revoked, hist_handled, pdfs, subscriptions, hist_uploaded, role_updates, jar>>

---------------------------------------------------------------------------
(* Requests are handled one at a time: the response of one is delivered   *)
(* before the next arrives.  Between requests time may pass, and the       *)
(* rate-limit counter is dropped when its lifetime ends (the counter store *)
(* expires the key).                                                       *)

Deliver ==
    /\ resp # Idle
    /\ resp' = Idle
    /\ UNCHANGED <<users, refresh_tokens, verification_tokens,
                   password_reset_tokens, access_tokens, token_seq, limiter,
                   now, hist_consumed, hist_reset_revoked, hist_handled, pdfs, subscriptions, hist_uploaded, role_updates, jar>>

Tick(t) ==
    /\ resp = Idle
    /\ t > now
    /\ now' = t
    /\ limiter' = IF limiter.expires_at > t THEN limiter ELSE NoLimiter
    /\ hist_handled' = [NotRecorded EXCEPT !.recording = hist_handled.recording]
    /\ UNCHANGED <<users, refresh_tokens, verification_tokens,
                   password_reset_tokens, access_tokens, token_seq, resp,
                   hist_consumed, hist_reset_revoked, pdfs, subscriptions, hist_uploaded, role_updates, jar>>

Next ==
    \/ \E e \in Emails, u \in Usernames, p \in Passwords : Register(e, u, p)
    \/ \E e \in Emails, p \in Passwords : Login(e, p)
    \/ \E e \in Emails, p \in Passwords : LoginJson(e, p)
    \/ \E t \in TokenValues, c \in CsrfValues, x \in QueryEchoes :
          Refresh(t, c, x)
    \/ \E t \in TokenValues : Logout(t)
    \/ \E t \in TokenValues : VerifyEmail(t)
    \/ \E e \in Emails : RequestPasswordReset(e)
    \/ \E t \in TokenValues, p \in Passwords : ResetPassword(t, p)
    \/ \E a \in access_tokens \cup {AbsentToken}, c \in Passwords,
          p \in Passwords :
          ChangePassword(a, c, p)
    \/ \E a \in AccessTokenInputs : GetCurrentUserInfo(a)
    \/ \E t \in Instants : Tick(t)
    \/ Deliver

Spec == Init /\ [][Next]_vars

\* The sessions of the registered users alone: login, refresh with the
\* echoed CSRF value in every place a request can carry it, logout, password
\* reset and change, and the requests behind get_current_user.
NextSession ==
    \/ \E e \in Emails, p \in Passwords : Login(e, p)
    \/ \E t \in TokenValues, c \in CsrfValues, x \in CsrfEchoes :
          Refresh(t, c, x)
    \/ \E t \in TokenValues : Logout(t)
    \/ \E e \in Emails : RequestPasswordReset(e)
    \/ \E t \in TokenValues, p \in Passwords : ResetPassword(t, p)
    \/ \E a \in access_tokens \cup {AbsentToken}, c \in Passwords,
          p \in Passwords :
          ChangePassword(a, c, p)
    \/ \E a \in AccessTokenInputs : GetCurrentUserInfo(a)
    \/ \E t \in Instants : Tick(t)
    \/ Deliver

SpecSession == Init /\ [][NextSession]_vars

\* The mailed-token lifecycle alone, with every outcome of the mail call.
NextMail ==
    \/ \E e \in Emails, u \in Usernames, p \in Passwords :
          register(e, u, p, MailOutcomes)
    \/ \E e \in Emails : request_password_reset(e, MailOutcomes)
    \/ \E t \in TokenValues : VerifyEmail(t)
    \/ \E t \in TokenValues, p \in Passwords : ResetPassword(t, p)
    \/ \E t \in Instants : Tick(t)
    \/ Deliver

SpecMail == Init /\ [][NextMail]_vars

---------------------------------------------------------------------------
(* Role gates: core/rbac.py, api/protected.py, and the admin endpoints of  *)
(* api/endpoints/admin.py behind is_admin (core/security.py).  The gates   *)
(* write nothing; they are checked for every role, email and verified flag *)
(* of the user row a session resolves to, and for every role the token's   *)
(* "role" claim may carry.                                                 *)

UserRole == {"admin", "user", "moderator"}

allow_admin == {"admin"}
allow_moderator == {"admin", "moderator"}
allow_all_users == {"admin", "moderator", "user"}

\* fault variant: the role is not looked at
role_unchecked(allowed_roles, access_token) == get_current_user(access_token)

\* fault variant: the gate trusts the role claim of the access token
role_claim_checked(allowed_roles, access_token) ==
    LET session == get_current_user(access_token)
    IN  IF session[1] # HTTP_200_OK THEN session
        ELSE IF access_token.role \notin allowed_roles
             THEN <<HTTP_403_FORBIDDEN, NoUser>>
             ELSE session

\* RoleChecker.__call__ behind get_current_user: <<status, user id>>
RoleChecker(allowed_roles, access_token) ==
    LET session == get_current_user(access_token)
    IN  IF session[1] # HTTP_200_OK THEN session
        ELSE IF users[session[2]].role \notin allowed_roles
             THEN <<HTTP_403_FORBIDDEN, NoUser>>
             ELSE session

protected_route(op, allowed_roles, access_token) ==
    /\ resp = Idle
    /\ LET req == [access_token |-> access_token]
           gate == RoleChecker(allowed_roles, access_token)
       IN  IF gate[1] = HTTP_401_UNAUTHORIZED THEN
               Reject(op, req, HTTP_401_UNAUTHORIZED, "Not authenticated")
           ELSE IF gate[1] = HTTP_403_FORBIDDEN THEN
               Reject(op, req, HTTP_403_FORBIDDEN,
                      "Role not authorized to access this resource")
           ELSE
               /\ resp' = Response(op, req, HTTP_200_OK, "", gate[2])
               /\ UNCHANGED <<users, refresh_tokens, verification_tokens,
                              password_reset_tokens, access_tokens, token_seq,
                              limiter, now, hist_consumed, hist_reset_revoked, hist_handled, pdfs, subscriptions, hist_uploaded, role_updates, jar>>

UserRoute(access_token) ==
    protected_route("user_route", allow_all_users, access_token)

ModeratorRoute(access_token) ==
    protected_route("moderator_route", allow_moderator, access_token)

AdminRoute(access_token) ==
    protected_route("admin_route", allow_admin, access_token)

\* str.lower() on the email addresses of the gate runs
lower(s) ==
    CASE s = "Admin@x.com" -> "admin@x.com"
      [] s = "Free" -> "free"
      [] s = "Pro" -> "pro"
      [] s = "Enterprise" -> "enterprise"
      [] OTHER -> s

\* "admin" in s, on the lower-cased email addresses of the gate runs
contains_admin(s) == s \in {"admin@x.com"}

\* is_admin: the User model has no attribute is_admin, so the first test
\* never passes and the email decides
is_admin(user) == contains_admin(lower(users[user].email))

admin_endpoint(op, access_token, found) ==
    /\ resp = Idle
    /\ LET req == [access_token |-> access_token, found |-> found]
           session == get_current_user(access_token)
       IN  IF session[1] # HTTP_200_OK THEN
               Reject(op, req, session[1], "Not authenticated")
           ELSE IF ~is_admin(session[2]) THEN
               Reject(op, req, HTTP_403_FORBIDDEN, "Admin access required")
           ELSE IF ~found THEN
               Reject(op, req, HTTP_404_NOT_FOUND, "PDF not found")
           ELSE
               /\ resp' = Response(op, req, HTTP_200_OK, "", session[2])
               /\ UNCHANGED <<users, refresh_tokens, verification_tokens,
                              password_reset_tokens, access_tokens, token_seq,
                              limiter, now, hist_consumed, hist_reset_revoked, hist_handled, pdfs, subscriptions, hist_uploaded, role_updates, jar>>

GetDashboardStats(access_token) ==
    admin_endpoint("admin_stats", access_token, TRUE)

AdminGetAllUsers(access_token) ==
    admin_endpoint("admin_users", access_token, TRUE)

AdminGetAllPdfs(access_token) ==
    admin_endpoint("admin_pdfs", access_token, TRUE)

\* the mock deletes nothing
AdminDeleteUser(access_token) ==
    admin_endpoint("admin_delete_user", access_token, TRUE)

\* found: os.path.exists(vectorstore_path)
AdminDeletePdf(access_token, found) ==
    admin_endpoint("admin_delete_pdf", access_token, found)

GateEmails == {"a@x.com", "Admin@x.com"}

\* One active user row of any role, email and verified flag, holding an
\* access token whose "role" claim is any role (the role may have been
\* updated since the token was issued), next to the inactive row.
InitGate ==
    /\ \E role \in UserRole, email \in GateEmails, is_verified \in BOOLEAN :
          users = << [email |-> email, username |-> "alice",
                      hashed_password |-> get_password_hash("pw12345678"),
                      role |-> role, is_active |-> TRUE,
                      is_verified |-> is_verified],
                     [email |-> "b@x.com", username |-> "bob",
                      hashed_password |-> get_password_hash("pw12345678"),
                      role |-> "user", is_active |-> FALSE,
                      is_verified |-> FALSE] >>
    /\ refresh_tokens = <<>>
    /\ verification_tokens = {}
    /\ password_reset_tokens = {}
    /\ \E role \in UserRole :
          access_tokens = {[present |-> TRUE, signed |-> TRUE,
                            type |-> "access", sub |-> str(1), role |-> role,
                            exp |-> ACCESS_TOKEN_EXPIRE_MINUTES]}
    /\ token_seq = 0
    /\ limiter = NoLimiter
    /\ now = 0
    /\ resp = Idle
    /\ hist_consumed = {}
    /\ hist_reset_revoked = {}
    /\ hist_handled = NotRecorded
    /\ NoUploads
    /\ role_updates = [c \in Clients |-> NoRoleUpdate]
    /\ jar = NoCookies

NextGate ==
    \/ \E a \in AccessTokenInputs : UserRoute(a)
    \/ \E a \in AccessTokenInputs : ModeratorRoute(a)
    \/ \E a \in AccessTokenInputs : AdminRoute(a)
    \/ \E a \in AccessTokenInputs : GetDashboardStats(a)
    \/ \E a \in AccessTokenInputs : AdminGetAllUsers(a)
    \/ \E a \in AccessTokenInputs : AdminGetAllPdfs(a)
    \/ \E a \in AccessTokenInputs : AdminDeleteUser(a)
    \/ \E a \in AccessTokenInputs, found \in BOOLEAN : AdminDeletePdf(a, found)
    \/ Deliver

SpecGate == InitGate /\ [][NextGate]_vars

---------------------------------------------------------------------------
(* POST /v1/generate-questions/: api/endpoints/smart_AI_pdf.py.  The       *)
(* handler gathers a pool of fragments from the index, then fills one slot *)
(* per requested question: it asks the generator, parses the result and,   *)
(* on any exception, appends a templated fallback question.  A question    *)
(* text is <<source, template branch, template index, subject, suffix>>;   *)
(* a subject is <<words, number>>.                                         *)

NoSubject == <<"", 0>>

\* Fragments as the subject extraction sees them: the first pair of
\* consecutive capitalized words, the capitalized words longer than 3, and
\* the first word longer than 5.
Fragments ==
    { [key_phrase |-> <<"Neural Network", 0>>, capitalized |-> <<>>,
       technical |-> NoSubject],
      [key_phrase |-> NoSubject, capitalized |-> << <<"Python", 0>> >>,
       technical |-> <<"Python", 0>>],
      [key_phrase |-> NoSubject, capitalized |-> <<>>,
       technical |-> NoSubject] }

\* the pools the retriever can return: an index holds at least one fragment
FragmentPools ==
    { <<f>> : f \in { g \in Fragments : g.technical = NoSubject } }
    \cup { <<f, g>> : f \in { h \in Fragments : h.capitalized # <<>> },
                      g \in { h \in Fragments : h.key_phrase # NoSubject } }

QuestionTypeLists ==
    { <<>>, <<"multiple_choice">>, <<"descriptive">>,
      <<"multiple_choice", "descriptive">>,
      <<"descriptive", "multiple_choice", "essay">> }

\* What client.text_generation can produce for a slot: a well-formed
\* question, text without "Question:", or an exception.
GeneratorOutputs == {"well_formed", "unparsable", "error"}

RECURSIVE first_unused(_, _, _)
first_unused(words, used_subjects, j) ==
    IF j > Len(words) THEN NoSubject
    ELSE IF words[j] \notin used_subjects THEN words[j]
    ELSE first_unused(words, used_subjects, j + 1)

\* subject: key phrase, else first unused capitalized word, else first
\* technical term, else f"topic {i+1}"
subject_of(doc, used_subjects, i) ==
    IF doc.key_phrase # NoSubject THEN doc.key_phrase
    ELSE IF first_unused(doc.capitalized, used_subjects, 1) # NoSubject
         THEN first_unused(doc.capitalized, used_subjects, 1)
    ELSE IF doc.technical # NoSubject THEN doc.technical
    ELSE <<"topic", i + 1>>

\* the branch of the prompt and fallback templates a question type takes
template_branch(q_type) ==
    IF q_type = "multiple_choice" THEN "multiple_choice" ELSE "descriptive"

\* generate_text: the reply with the canned question substituted when
\* "Question:" is missing (the prompts never contain "multiple_choice", so
\* the canned question is the descriptive one) and "Error: ..." on an
\* exception; then the handler's parse of it.  <<status, question text>>,
\* status "ok", "raise" (nothing extracted) or "raise_after_text".
parse_result(output, q_type) ==
    IF output = "error" THEN <<"raise", <<"", "", 0, NoSubject, 0>> >>
    ELSE IF output = "unparsable" THEN
        IF q_type = "multiple_choice"
        THEN <<"raise_after_text",
               <<"canned with answer", "descriptive", 0, NoSubject, 0>> >>
        ELSE <<"ok", <<"canned", "descriptive", 0, NoSubject, 0>> >>
    ELSE <<"ok", <<"generated", "", 0, NoSubject, 0>> >>

\* the fallback question of the except branch
fallback_question(q_type, template_index, subject, used_questions) ==
    LET question_text ==
            <<"fallback", template_branch(q_type), template_index, subject, 0>>
    IN  IF question_text \in used_questions
        THEN <<"fallback", template_branch(q_type), template_index, subject, 1>>
        ELSE question_text

\* fault variant: a slot whose generation failed is left empty
skip_failed_slot(st, q_type, i, all_docs, outputs) ==
    LET slot == Len(st.questions) + Len(st.skipped) + 1
        parsed == parse_result(outputs[slot], q_type)
    IN  IF parsed[1] = "ok" /\ parsed[2] \notin st.used_questions
        THEN [st EXCEPT !.questions =
                            Append(@, [question |-> parsed[2],
                                       question_type |-> q_type]),
                        !.used_questions = @ \cup {parsed[2]}]
        ELSE [st EXCEPT !.skipped = Append(@, slot)]

\* one pass of the inner loop body: try, and the except branch
generate_slot(st, q_type, i, all_docs, outputs) ==
    LET doc_index == (i + Len(st.questions)) % Len(all_docs)
        subject == subject_of(all_docs[doc_index + 1], st.used_subjects, i)
        parsed == parse_result(outputs[Len(st.questions) + 1], q_type)
        duplicate == parsed[1] # "raise" /\ parsed[2] \in st.used_questions
        seen == IF parsed[1] = "raise" \/ duplicate
                THEN st.used_questions
                ELSE st.used_questions \cup {parsed[2]}
        template_index == (i + Len(st.questions)) % 3
        fallback == fallback_question(q_type, template_index, subject, seen)
    IN  IF parsed[1] = "ok" /\ ~duplicate
        THEN [st EXCEPT !.questions =
                            Append(@, [question |-> parsed[2],
                                       question_type |-> q_type]),
                        !.used_questions = seen,
                        !.used_subjects = @ \cup {subject},
                        !.doc_indices = Append(@, doc_index)]
        ELSE [st EXCEPT !.questions =
                            Append(@, [question |-> fallback,
                                       question_type |-> q_type]),
                        !.used_questions = seen \cup {fallback},
                        !.used_subjects = @ \cup {subject},
                        !.doc_indices = Append(@, doc_index)]

RECURSIVE generate_slots(_, _, _, _, _, _)
generate_slots(st, q_type, i, num_questions, all_docs, outputs) ==
    IF i >= num_questions THEN st
    ELSE generate_slots(generate_slot(st, q_type, i, all_docs, outputs),
                        q_type, i + 1, num_questions, all_docs, outputs)

RECURSIVE generate_types(_, _, _, _, _, _, _)
generate_types(st, question_types, k, questions_per_type, remaining_questions, all_docs, outputs) ==
    IF k > Len(question_types) THEN st
    ELSE LET num_questions ==
                 questions_per_type + (IF remaining_questions > 0 THEN 1 ELSE 0)
         IN  generate_types(
                 generate_slots(st, question_types[k], 0, num_questions,
                                all_docs, outputs),
                 question_types, k + 1, questions_per_type,
                 IF remaining_questions > 0 THEN remaining_questions - 1 ELSE 0,
                 all_docs, outputs)

\* the loops of generate_questions, with the doc_index of every slot kept
generate_loops(num_questions, question_types, all_docs, outputs) ==
    generate_types([questions |-> <<>>, used_questions |-> {},
                    used_subjects |-> {}, skipped |-> <<>>,
                    doc_indices |-> <<>>],
                   question_types, 1,
                   num_questions \div Len(question_types),
                   num_questions % Len(question_types),
                   all_docs, outputs)

generate_questions(num_questions, question_types, all_docs, outputs) ==
    generate_loops(num_questions, question_types, all_docs, outputs).questions

\* vectorstore: "missing" (no directory), "corrupt" (FAISS.load_local
\* raises) or "loaded"
GenerateQuestions(access_token, vectorstore) ==
    /\ resp = Idle
    /\ LET session == get_current_user(access_token)
           short == [access_token |-> access_token, vectorstore |-> vectorstore]
       IN  IF session[1] # HTTP_200_OK THEN
               Reject("generate_questions", short, session[1],
                      "Not authenticated")
           ELSE IF vectorstore = "missing" THEN
               Reject("generate_questions", short, HTTP_404_NOT_FOUND,
                      "PDF not found")
           ELSE IF vectorstore = "corrupt" THEN
               Reject("generate_questions", short,
                      HTTP_500_INTERNAL_SERVER_ERROR, "Error loading PDF data")
           ELSE
               \E num_questions \in 0..MaxQuestions,
                  question_types \in QuestionTypeLists :
                 IF question_types = <<>> THEN
                     Reject("generate_questions",
                            [access_token |-> access_token,
                             vectorstore |-> vectorstore,
                             num_questions |-> num_questions,
                             question_types |-> question_types],
                            HTTP_500_INTERNAL_SERVER_ERROR,
                            "Error generating questions")
                 ELSE
                   \E all_docs \in FragmentPools,
                      outputs \in [1..num_questions -> GeneratorOutputs] :
                     /\ resp' =
                          [Response("generate_questions",
                                    [access_token |-> access_token,
                                     vectorstore |-> vectorstore,
                                     num_questions |-> num_questions,
                                     question_types |-> question_types,
                                     all_docs |-> all_docs,
                                     outputs |-> outputs],
                                    HTTP_200_OK, "", session[2]) EXCEPT
                              !.body = [questions |->
                                  generate_questions(num_questions,
                                      question_types, all_docs, outputs)]]
                     /\ UNCHANGED <<users, refresh_tokens,
                                    verification_tokens, password_reset_tokens,
                                    access_tokens, token_seq, limiter, now,
                                    hist_consumed, hist_reset_revoked, hist_handled, pdfs, subscriptions, hist_uploaded, role_updates, jar>>

VectorstoreStates == {"missing", "corrupt", "loaded"}

NextQuestions ==
    \/ \E a \in AccessTokenInputs, v \in VectorstoreStates :
          GenerateQuestions(a, v)
    \/ Deliver

\* an active user holding an access token
InitQuestions ==
    /\ InitGate
    /\ users[1].role = "user"
    /\ users[1].email = "a@x.com"
    /\ users[1].is_verified
    /\ \A a \in access_tokens : a.role = "user"

SpecQuestions == InitQuestions /\ [][NextQuestions]_vars

---------------------------------------------------------------------------
(* PUT /users/me: api/users.py, services/user.py.  update_user assigns the *)
(* fields the request sets and commits; the columns email and username are *)
(* unique (models/user.py), so the commit of a duplicate raises            *)
(* IntegrityError, which no handler catches.                               *)

\* a field of UserUpdate the request does not set
Unset == ""

\* the unique constraints of users.email and users.username
unique_columns(rows) ==
    \A i, j \in 1..Len(rows) :
        (rows[i].email = rows[j].email \/ rows[i].username = rows[j].username)
            => i = j

\* setattr(user, field, value) for the fields set
update_user(user, email, username) ==
    [users EXCEPT ![user].email = IF email = Unset THEN @ ELSE email,
                  ![user].username = IF username = Unset THEN @ ELSE username]

UpdateCurrentUser(access_token, email, username) ==
    /\ resp = Idle
    /\ LET req == [access_token |-> access_token, email |-> email,
                   username |-> username]
           session == get_current_user(access_token)
       IN  IF session[1] # HTTP_200_OK THEN
               Reject("update_current_user", req, session[1],
                      "Not authenticated")
           ELSE IF ~unique_columns(update_user(session[2], email, username)) THEN
               Reject("update_current_user", req,
                      HTTP_500_INTERNAL_SERVER_ERROR, "Internal Server Error")
           ELSE
               /\ users' = update_user(session[2], email, username)
               /\ resp' = Response("update_current_user", req, HTTP_200_OK, "",
                                   session[2])
               /\ UNCHANGED <<refresh_tokens, verification_tokens,
                              password_reset_tokens, access_tokens, token_seq,
                              limiter, now, hist_consumed, hist_reset_revoked, hist_handled, pdfs, subscriptions, hist_uploaded, role_updates, jar>>

NextProfile ==
    \/ \E e \in Emails, u \in Usernames, p \in Passwords : Register(e, u, p)
    \/ \E e \in Emails, p \in Passwords : Login(e, p)
    \/ \E a \in access_tokens \cup {AbsentToken},
          e \in Emails \cup {Unset}, u \in Usernames \cup {Unset} :
          UpdateCurrentUser(a, e, u)
    \/ Deliver

SpecProfile == Init /\ [][NextProfile]_vars

---------------------------------------------------------------------------
(* A request behind get_current_user with both places a client can put an  *)
(* access token: the Authorization bearer header, read by oauth2_scheme     *)
(* (auto_error=False, so None when absent), and the access_token cookie.    *)

\* get_current_user(db, token, access_token): token is received and not
\* read
get_current_user_dependency(token, access_token) ==
    get_current_user(access_token)

GetCurrentUserInfoWithHeader(token, access_token) ==
    /\ resp = Idle
    /\ LET req == [token |-> token, access_token |-> access_token]
           session == get_current_user_dependency(token, access_token)
       IN  IF session[1] # HTTP_200_OK THEN
               Reject("get_current_user_info", req, session[1],
                      "Not authenticated")
           ELSE
               /\ resp' = Response("get_current_user_info", req, HTTP_200_OK,
                                   "", session[2])
               /\ UNCHANGED <<users, refresh_tokens, verification_tokens,
                              password_reset_tokens, access_tokens, token_seq,
                              limiter, now, hist_consumed, hist_reset_revoked, hist_handled, pdfs, subscriptions, hist_uploaded, role_updates, jar>>

NextBearer ==
    \/ \E e \in Emails, p \in Passwords : Login(e, p)
    \/ \E h \in AccessTokenInputs, a \in AccessTokenInputs :
          GetCurrentUserInfoWithHeader(h, a)
    \/ \E t \in Instants : Tick(t)
    \/ Deliver

SpecBearer == Init /\ [][NextBearer]_vars

---------------------------------------------------------------------------
(* The rate-limited routes, with the handler runs recorded.  `login` and   *)
(* `register` declare no limiter dependency; `request_password_reset`      *)
(* declares Depends(password_reset_rate_limiter).                          *)

InitLimiter ==
    /\ InitTables
    /\ hist_handled = Recorded
    /\ NoUploads

NextLimiter ==
    \/ \E e \in Emails, u \in Usernames, p \in Passwords : Register(e, u, p)
    \/ \E e \in Emails, p \in Passwords : Login(e, p)
    \/ \E e \in Emails : RequestPasswordReset(e)
    \/ \E t \in Instants : Tick(t)
    \/ Deliver

SpecLimiter == InitLimiter /\ [][NextLimiter]_vars

---------------------------------------------------------------------------
(* POST /upload-pdf/.  The handler has no database session: it writes the  *)
(* vector store to disk and returns, and the pdfs table is left as it was. *)

FREE_TIER_PDFS == 3
PRO_TIER_PDFS == 10

PlanNames == {"Free", "Pro", "Enterprise"}

Filenames == {"notes.pdf", "notes.txt"}

\* file.filename.endswith(".pdf")
endswith_pdf(filename) == filename \in {"notes.pdf"}

\* the indices of the rows of user.subscriptions, in relationship order
subscriptions_of(user) ==
    { i \in 1..Len(subscriptions) : subscriptions[i].user_id = user }

\* next((sub for sub in user.subscriptions if sub.is_active and
\* sub.end_date > datetime.utcnow()), None): the first such row, 0 for None
active_subscription(user) ==
    LET live == { i \in subscriptions_of(user) :
                    /\ subscriptions[i].is_active
                    /\ subscriptions[i].end_date > now }
    IN  IF live = {} THEN 0
        ELSE CHOOSE i \in live : \A j \in live : i <= j

\* len(user.pdfs)
len_pdfs(user) == Cardinality({ i \in 1..Len(pdfs) : pdfs[i].user_id = user })

check_user_pdf_limits(user) ==
    LET sub == active_subscription(user)
    IN  IF sub = 0 THEN len_pdfs(user) < FREE_TIER_PDFS
        ELSE IF lower(subscriptions[sub].plan_name) = "free"
             THEN len_pdfs(user) < FREE_TIER_PDFS
        ELSE IF lower(subscriptions[sub].plan_name) = "pro"
             THEN len_pdfs(user) < PRO_TIER_PDFS
        ELSE TRUE

\* the uploads the user has completed
uploads_of(user) ==
    Cardinality({ i \in 1..Len(hist_uploaded) : hist_uploaded[i] = user })

ProcessingOutcomes == {"saved", "error"}

UploadPdf(access_token, filename, processing) ==
    /\ resp = Idle
    /\ LET session == get_current_user(access_token)
           req == [access_token |-> access_token, filename |-> filename,
                   processing |-> processing]
           Fail(status, detail) ==
               /\ resp' = Response("upload_pdf", req, status, detail, session[2])
               /\ UNCHANGED hist_uploaded
       IN  /\ IF session[1] # HTTP_200_OK THEN
                  Fail(session[1], "Not authenticated")
              ELSE IF ~endswith_pdf(filename) THEN
                  Fail(HTTP_400_BAD_REQUEST, "Only PDF files are allowed")
              ELSE IF ~check_user_pdf_limits(session[2]) THEN
                  Fail(HTTP_403_FORBIDDEN,
                       "PDF upload limit reached for your subscription tier")
              ELSE IF processing = "error" THEN
                  Fail(HTTP_500_INTERNAL_SERVER_ERROR, "Error processing PDF")
              ELSE
                  /\ Len(hist_uploaded) < MaxUploads
                  /\ hist_uploaded' = Append(hist_uploaded, session[2])
                  /\ resp' = Response("upload_pdf", req, HTTP_201_CREATED, "",
                                      session[2])
           /\ UNCHANGED <<users, refresh_tokens, verification_tokens,
                          password_reset_tokens, access_tokens, token_seq,
                          limiter, now, hist_consumed, hist_reset_revoked,
                          hist_handled, pdfs, subscriptions, role_updates, jar>>

\* The rows the two tables may hold when the application starts: they are
\* written outside the application, for the one account that can log in.
PdfTables ==
    { [i \in 1..n |-> [user_id |-> 1, filename |-> "notes.pdf"]] :
        n \in 0..MaxPdfs }

SubscriptionRows ==
    [user_id : {1}, plan_name : PlanNames, end_date : {60, 20160},
     is_active : BOOLEAN]

SubscriptionTables ==
    {<<>>}
    \cup { <<row>> : row \in SubscriptionRows }
    \cup { <<[user_id |-> 1, plan_name |-> "Enterprise", end_date |-> 60,
              is_active |-> TRUE],
             [user_id |-> 1, plan_name |-> "Pro", end_date |-> 20160,
              is_active |-> TRUE]>> }

InitUpload ==
    /\ InitTables
    /\ hist_handled = NotRecorded
    /\ pdfs \in PdfTables
    /\ subscriptions \in SubscriptionTables
    /\ hist_uploaded = <<>>

NextUpload ==
    \/ \E e \in Emails, p \in Passwords : Login(e, p)
    \/ \E a \in access_tokens \cup {AbsentToken}, f \in Filenames,
          processing \in ProcessingOutcomes : UploadPdf(a, f, processing)
    \/ \E t \in Instants : Tick(t)
    \/ Deliver

SpecUpload == InitUpload /\ [][NextUpload]_vars

---------------------------------------------------------------------------
(* PUT /users/{user_id}/role.  The gate dependency runs in the thread pool *)
(* before the handler body, and several worker processes share the         *)
(* database, so the requests of several clients interleave between the     *)
(* gate, the lookup, the own-role test and the write.                      *)

\* user.role = role; db.commit()
update_user_role(user, role) == [users EXCEPT ![user].role = role]

\* the request leaves with this response
role_update_done(c, status, detail) ==
    role_updates' = [role_updates EXCEPT ![c].pc = "done",
                                         ![c].status = status,
                                         ![c].detail = detail]

role_frame ==
    UNCHANGED <<refresh_tokens, verification_tokens, password_reset_tokens,
                access_tokens, token_seq, limiter, now, resp, hist_consumed,
                hist_reset_revoked, hist_handled, pdfs, subscriptions,
                hist_uploaded, jar>>

\* current_user: User = Depends(allow_admin)
RoleGate(c, access_token, user_id, role) ==
    /\ role_updates[c].pc = "idle"
    /\ LET gate == RoleChecker(allow_admin, access_token)
           request == [NoRoleUpdate EXCEPT !.user_id = user_id,
                                           !.role = role]
       IN  role_updates' =
               [role_updates EXCEPT ![c] =
                   IF gate[1] = HTTP_401_UNAUTHORIZED
                   THEN [request EXCEPT !.pc = "done", !.status = gate[1],
                                        !.detail = "Not authenticated"]
                   ELSE IF gate[1] = HTTP_403_FORBIDDEN
                   THEN [request EXCEPT !.pc = "done", !.status = gate[1],
                                        !.detail = "Role not authorized"]
                   ELSE [request EXCEPT !.pc = "lookup",
                                        !.current_user = gate[2]]]
    /\ UNCHANGED users
    /\ role_frame

\* user = get_user_by_id(db, user_id); if not user: raise 404
RoleLookup(c) ==
    /\ role_updates[c].pc = "lookup"
    /\ LET user == get_user_by_id(role_updates[c].user_id)
       IN  IF user = NoUser
           THEN role_update_done(c, HTTP_404_NOT_FOUND, "User not found")
           ELSE role_updates' = [role_updates EXCEPT ![c].pc = "own_check",
                                                     ![c].user = user]
    /\ UNCHANGED users
    /\ role_frame

\* if user.id == current_user.id: raise 400
RoleOwnCheck(c) ==
    /\ role_updates[c].pc = "own_check"
    /\ IF role_updates[c].user = role_updates[c].current_user
       THEN role_update_done(c, HTTP_400_BAD_REQUEST, "Cannot change own role")
       ELSE role_updates' = [role_updates EXCEPT ![c].pc = "write"]
    /\ UNCHANGED users
    /\ role_frame

\* update_user_role(db, user, role); return {"detail": ...}
RoleWrite(c) ==
    /\ role_updates[c].pc = "write"
    /\ users' = update_user_role(role_updates[c].user, role_updates[c].role)
    /\ role_update_done(c, HTTP_200_OK, "User role updated")
    /\ role_frame

\* the response reaches the client
RoleDeliver(c) ==
    /\ role_updates[c].pc = "done"
    /\ role_updates' = [role_updates EXCEPT ![c] = NoRoleUpdate]
    /\ UNCHANGED users
    /\ role_frame

\* two active accounts, at least one of them an admin
InitRoles ==
    /\ \E role1 \in UserRole, role2 \in UserRole :
          /\ "admin" \in {role1, role2}
          /\ users = << [email |-> "a@x.com", username |-> "alice",
                         hashed_password |-> get_password_hash("pw12345678"),
                         role |-> role1, is_active |-> TRUE,
                         is_verified |-> TRUE],
                        [email |-> "b@x.com", username |-> "bob",
                         hashed_password |-> get_password_hash("pw12345678"),
                         role |-> role2, is_active |-> TRUE,
                         is_verified |-> TRUE] >>
    /\ role_updates = [c \in Clients |-> NoRoleUpdate]
    /\ jar = NoCookies
    /\ refresh_tokens = <<>>
    /\ verification_tokens = {}
    /\ password_reset_tokens = {}
    /\ access_tokens = {}
    /\ token_seq = 0
    /\ limiter = NoLimiter
    /\ now = 0
    /\ resp = Idle
    /\ hist_consumed = {}
    /\ hist_reset_revoked = {}
    /\ hist_handled = NotRecorded
    /\ NoUploads

NextRoles ==
    \/ \E e \in Emails, p \in Passwords : Login(e, p)
    \/ \E c \in Clients, a \in access_tokens \cup {AbsentToken},
          user_id \in 1..MaxUsers, role \in UserRole :
            RoleGate(c, a, user_id, role)
    \/ \E c \in Clients : RoleLookup(c)
    \/ \E c \in Clients : RoleOwnCheck(c)
    \/ \E c \in Clients : RoleWrite(c)
    \/ \E c \in Clients : RoleDeliver(c)
    \/ Deliver

SpecRoles == InitRoles /\ [][NextRoles]_vars

\* the role updates of one client, next to the gated routes
NextRoleChange ==
    \/ \E e \in Emails, p \in Passwords : Login(e, p)
    \/ \E a \in access_tokens \cup {AbsentToken}, user_id \in 1..MaxUsers,
          role \in UserRole : RoleGate(1, a, user_id, role)
    \/ RoleLookup(1)
    \/ RoleOwnCheck(1)
    \/ RoleWrite(1)
    \/ RoleDeliver(1)
    \/ \E a \in access_tokens : AdminRoute(a)
    \/ \E a \in access_tokens : ModeratorRoute(a)
    \/ Deliver

SpecRoleChange == InitRoles /\ [][NextRoleChange]_vars

---------------------------------------------------------------------------
(* A client that stores the cookies of the responses, drops each one when  *)
(* its max-age has elapsed, and echoes the CSRF cookie where the refresh   *)
(* handler reads it.                                                       *)

\* generate_csrf_token(): the value of the cookie the response sets
generate_csrf_token == "c1"

\* max_age of the cookies login and refresh set, in minutes
cookie_max_age(key) ==
    IF key = "refresh_token"
    THEN REFRESH_TOKEN_EXPIRE_DAYS * HoursPerDay * MinutesPerHour
    ELSE ACCESS_TOKEN_EXPIRE_MINUTES

\* the value the response gives the cookie
cookie_value(key) ==
    IF key = "access_token" THEN resp.body.access_token
    ELSE IF key = "refresh_token"
         THEN refresh_tokens[Len(refresh_tokens)].token
    ELSE generate_csrf_token

\* the cookie the client sends: the stored one until its max-age elapses
sent_cookie(key) ==
    IF jar[key].expires_at > now THEN jar[key].value ELSE NoCookies[key].value

\* the response reaches the client, which stores and deletes cookies as told
ClientReceive ==
    /\ resp # Idle
    /\ resp' = Idle
    /\ jar' = [key \in DOMAIN jar |->
                  IF key \in resp.set_cookies
                  THEN [value |-> cookie_value(key),
                        expires_at |-> now + cookie_max_age(key)]
                  ELSE IF key \in resp.del_cookies THEN NoCookies[key]
                  ELSE jar[key]]
    /\ UNCHANGED <<users, refresh_tokens, verification_tokens,
                   password_reset_tokens, access_tokens, token_seq, limiter,
                   now, hist_consumed, hist_reset_revoked, hist_handled, pdfs,
                   subscriptions, hist_uploaded, role_updates>>

\* POST /auth/refresh?x_csrf_token=<the CSRF cookie> with the stored cookies
ClientRefresh ==
    Refresh(sent_cookie("refresh_token"), sent_cookie("csrf_token"),
            IF sent_cookie("csrf_token") = ""
            THEN [via |-> "none", value |-> ""]
            ELSE [via |-> "query", value |-> sent_cookie("csrf_token")])

\* POST /auth/logout with the stored refresh cookie
ClientLogout == Logout(sent_cookie("refresh_token"))

NextClient ==
    \/ \E e \in Emails, p \in Passwords : Login(e, p)
    \/ ClientRefresh
    \/ ClientLogout
    \/ \E t \in Instants : Tick(t)
    \/ ClientReceive

SpecClient == Init /\ [][NextClient]_vars

---------------------------------------------------------------------------
(* Properties.  A step whose resp'.op names a handler is that handler      *)
(* answering the request resp'.req in the state the step starts from.      *)

EmailTaken(email) == \E i \in UserIds : users[i].email = email
UsernameTaken(username) == \E i \in UserIds : users[i].username = username

\* C1: a register request whose email or whose username is that of an
\* existing user row fails with a 400-class error and leaves the user rows
\* as they were.
C1_DuplicateRegisterRejected ==
    [][(/\ resp'.op = "register"
        /\ EmailTaken(resp'.req.email) \/ UsernameTaken(resp'.req.username))
           => /\ resp'.status = HTTP_400_BAD_REQUEST
              /\ users' = users]_vars

\* a register request with a fresh email and a taken username was refused
C1_Witness ==
    /\ resp.op = "register"
    /\ resp.status = HTTP_400_BAD_REQUEST
    /\ ~EmailTaken(resp.req.email)
    /\ UsernameTaken(resp.req.username)

\* the user row a login names and whose password it presents
Authenticates(i, req) ==
    /\ users[i].email = req.email
    /\ users[i].hashed_password = get_password_hash(req.password)

LoginOps == {"login", "login_json"}

\* C2: a login (form or JSON) with the correct password fails with 401,
\* adds no refresh-token row and sets no cookie when the user is inactive;
\* when the user is active it succeeds with {access_token, "bearer",
\* ACCESS_TOKEN_EXPIRE_MINUTES*60}, sets the cookies access_token,
\* refresh_token and csrf_token, and adds exactly one refresh-token row,
\* not revoked and owned by that user.
C2_LoginWithCorrectPassword ==
    [][\A i \in UserIds :
          (resp'.op \in LoginOps /\ Authenticates(i, resp'.req))
              => IF ~users[i].is_active
                 THEN /\ resp'.status = HTTP_401_UNAUTHORIZED
                      /\ refresh_tokens' = refresh_tokens
                      /\ resp'.set_cookies = {}
                 ELSE /\ resp'.status = HTTP_200_OK
                      /\ resp'.body.access_token.present
                      /\ resp'.body.access_token.sub = str(i)
                      /\ resp'.body.token_type = "bearer"
                      /\ resp'.body.expires_in =
                             ACCESS_TOKEN_EXPIRE_MINUTES * SecondsPerMinute
                      /\ resp'.set_cookies =
                             {"access_token", "refresh_token", "csrf_token"}
                      /\ Len(refresh_tokens') = Len(refresh_tokens) + 1
                      /\ SubSeq(refresh_tokens', 1, Len(refresh_tokens))
                             = refresh_tokens
                      /\ refresh_tokens'[Len(refresh_tokens')].user_id = i
                      /\ refresh_tokens'[Len(refresh_tokens')].revoked = FALSE
                      /\ \A j \in RefreshRows :
                             refresh_tokens[j].token #
                                 refresh_tokens'[Len(refresh_tokens')].token]_vars

\* an inactive user presenting the right password was refused, while the
\* login of an active user has left its refresh-token row
C2_Witness ==
    /\ resp.op \in LoginOps
    /\ resp.status = HTTP_401_UNAUTHORIZED
    /\ \E i \in UserIds : Authenticates(i, resp.req) /\ ~users[i].is_active
    /\ \E j \in RefreshRows :
          /\ ~refresh_tokens[j].revoked
          /\ users[refresh_tokens[j].user_id].is_active

\* C3: a login with an unknown email, or with a wrong password for an
\* existing user, fails with 401 and the same detail, leaves the
\* refresh-token rows and the user rows unchanged and sets no cookie.
C3_FailedLogin ==
    [][(/\ resp'.op \in LoginOps
        /\ ~\E i \in UserIds : Authenticates(i, resp'.req))
           => /\ resp'.status = HTTP_401_UNAUTHORIZED
              /\ resp'.detail = "Incorrect email or password"
              /\ refresh_tokens' = refresh_tokens
              /\ users' = users
              /\ resp'.set_cookies = {}]_vars

\* a login with the wrong password for an existing active user was refused
C3_Witness ==
    /\ resp.op \in LoginOps
    /\ resp.status = HTTP_401_UNAUTHORIZED
    /\ \E i \in UserIds :
          /\ users[i].email = resp.req.email
          /\ users[i].is_active
          /\ ~Authenticates(i, resp.req)

\* a refresh-token row a refresh request can be answered from
LiveRefreshRow(j, token) ==
    /\ refresh_tokens[j].token = token
    /\ refresh_tokens[j].expires_at > now
    /\ ~refresh_tokens[j].revoked

CsrfMismatch(req) ==
    /\ req.csrf_token # ""
    /\ req.x_csrf_token # ""
    /\ req.csrf_token # req.x_csrf_token

\* C4: a refresh request whose CSRF cookie and echoed CSRF value are both
\* present and differ fails with 401, mints no access token and sets no
\* cookie, whatever refresh token it presents.
C4_CsrfMismatchRejected ==
    [][(resp'.op = "refresh" /\ CsrfMismatch(resp'.req))
           => /\ resp'.status = HTTP_401_UNAUTHORIZED
              /\ resp'.body = NoBody
              /\ resp'.set_cookies = {}
              /\ access_tokens' = access_tokens]_vars

\* a refresh presenting a live refresh token of an active user was refused
\* for its CSRF pair
C4_Witness ==
    /\ resp.op = "refresh"
    /\ resp.status = HTTP_401_UNAUTHORIZED
    /\ CsrfMismatch(resp.req)
    /\ \E j \in RefreshRows :
          /\ LiveRefreshRow(j, resp.req.refresh_token)
          /\ users[refresh_tokens[j].user_id].is_active

\* what a refresh request needs to be answered with a new access token
RefreshAllowed(req) ==
    /\ req.refresh_token # NoToken
    /\ req.csrf_token # ""
    /\ req.x_csrf_token # ""
    /\ req.csrf_token = req.x_csrf_token
    /\ \E j \in RefreshRows :
          /\ LiveRefreshRow(j, req.refresh_token)
          /\ refresh_tokens[j].user_id \in UserIds
          /\ users[refresh_tokens[j].user_id].is_active

\* C5: a refresh request mints a new access token only if the refresh
\* cookie is present, both CSRF values are present and equal, a stored row
\* of that token is unexpired and not revoked, and the row's user exists
\* and is active; otherwise it fails with 401 and mints nothing.
C5_RefreshOnlyWhenAllowed ==
    [][resp'.op = "refresh"
           => /\ resp'.body.access_token.present => RefreshAllowed(resp'.req)
              /\ ~RefreshAllowed(resp'.req)
                     => /\ resp'.status = HTTP_401_UNAUTHORIZED
                        /\ resp'.body = NoBody
                        /\ access_tokens' = access_tokens]_vars

\* a refresh with a passing CSRF pair was refused for a token whose row is
\* stored but revoked or expired
C5_Witness ==
    /\ resp.op = "refresh"
    /\ resp.status = HTTP_401_UNAUTHORIZED
    /\ resp.req.csrf_token # ""
    /\ resp.req.csrf_token = resp.req.x_csrf_token
    /\ \E j \in RefreshRows : refresh_tokens[j].token = resp.req.refresh_token

MailTokenOps == {"verify_email", "reset_password"}

InvalidOrExpired ==
    {"Invalid or expired verification token",
     "Invalid or expired password reset token"}

\* C7: a verification or password-reset token with which a verify-email /
\* reset-password request has succeeded is used up: every later request
\* presenting it fails with the invalid-or-expired-token error and changes
\* no user row, so at most one request per token succeeds.
C7_MailTokensSingleUse ==
    [][(resp'.op \in MailTokenOps /\ resp'.req.token \in hist_consumed)
           => /\ resp'.status = HTTP_400_BAD_REQUEST
              /\ resp'.detail \in InvalidOrExpired
              /\ users' = users]_vars

\* a verification token and a reset token have both been used, and a second
\* reset with the used reset token was refused
C7_Witness ==
    /\ resp.op = "reset_password"
    /\ resp.req.token \in hist_consumed
    /\ resp.status = HTTP_400_BAD_REQUEST
    /\ Cardinality(hist_consumed) = 2
    /\ \E i \in UserIds : i > InactiveUser /\ users[i].is_verified

\* C8: in every refresh-token store and for every token value t, revoking t
\* twice yields the store that revoking it once yields, and revoking a
\* value no row holds leaves the store unchanged.
C8_RevokeIdempotent ==
    \A t \in TokenValues :
       LET once == revoke_refresh_token(refresh_tokens, t)
       IN  /\ revoke_refresh_token(once, t) = once
           /\ (\A j \in RefreshRows : refresh_tokens[j].token # t)
                 => once = refresh_tokens

\* a logout has revoked a refresh token that a password reset had already
\* revoked
C8_Witness ==
    /\ resp.op = "logout"
    /\ resp.req.refresh_token \in hist_reset_revoked

\* C9: a refresh-token row with revoked set is still there, with the same
\* token and with revoked set, after every step.
C9_RevocationPermanent ==
    [][\A j \in RefreshRows :
          refresh_tokens[j].revoked
             => /\ j <= Len(refresh_tokens')
                /\ refresh_tokens'[j].token = refresh_tokens[j].token
                /\ refresh_tokens'[j].user_id = refresh_tokens[j].user_id
                /\ refresh_tokens'[j].revoked]_vars

\* the user of a revoked refresh token has logged in again and then logged
\* out with the revoked token once more
C9_Witness ==
    /\ resp.op = "logout"
    /\ Len(refresh_tokens) = 2
    /\ refresh_tokens[1].token = resp.req.refresh_token
    /\ refresh_tokens[1].revoked
    /\ ~refresh_tokens[2].revoked
    /\ refresh_tokens[2].user_id = refresh_tokens[1].user_id
    /\ hist_reset_revoked = {}

SessionOps == {"get_current_user_info", "change_password"}

\* what get_current_user needs of the access_token cookie
ValidSession(a) ==
    /\ a.present
    /\ a.signed
    /\ a.exp >= now
    /\ a.type = "access"
    /\ a.sub # NoSub
    /\ int_of(a.sub) \in UserIds
    /\ users[int_of(a.sub)].is_active

\* C10: a request behind get_current_user reaches its handler only if the
\* access token is present, signed, unexpired, of type "access", carries a
\* subject, and the subject's user row exists and is active, and the user
\* attached to the request is the row whose id is the subject; in every
\* other case the answer is 401 and the handler writes nothing.
C10_SessionResolution ==
    [][resp'.op \in SessionOps
           => /\ resp'.status # HTTP_401_UNAUTHORIZED
                    => /\ ValidSession(resp'.req.access_token)
                       /\ resp'.status = HTTP_200_OK
                             => resp'.user = int_of(resp'.req.access_token.sub)
              /\ ~ValidSession(resp'.req.access_token)
                    => /\ resp'.status = HTTP_401_UNAUTHORIZED
                       /\ resp'.user = NoUser
                       /\ users' = users]_vars

\* an access token the server issued to an active user was refused once it
\* had expired
C10_Witness ==
    /\ resp.op \in SessionOps
    /\ resp.status = HTTP_401_UNAUTHORIZED
    /\ resp.req.access_token \in access_tokens
    /\ resp.req.access_token.exp < now
    /\ users[int_of(resp.req.access_token.sub)].is_active

GateOps == {"user_route", "moderator_route", "admin_route"}

allowed_roles_of(op) ==
    IF op = "admin_route" THEN {"admin"}
    ELSE IF op = "moderator_route" THEN {"admin", "moderator"}
    ELSE {"admin", "moderator", "user"}

\* C11: for a request whose session resolves to a user, the role gate of
\* /protected/admin, /protected/moderator and /protected/user answers 200
\* if and only if the user's role is in {admin}, {admin, moderator} and
\* {admin, moderator, user} respectively, and 403 otherwise; so each looser
\* gate admits every role a stricter one admits.
C11_RoleGate ==
    [][(/\ resp'.op \in GateOps
        /\ ValidSession(resp'.req.access_token))
           => LET role == users[int_of(resp'.req.access_token.sub)].role
              IN  /\ role \in allowed_roles_of(resp'.op)
                     <=> resp'.status = HTTP_200_OK
                  /\ role \notin allowed_roles_of(resp'.op)
                     <=> resp'.status = HTTP_403_FORBIDDEN]_vars

\* the moderator gate refused a user of role "user" whose token carries the
\* role claim "admin"
C11_Witness ==
    /\ resp.op = "moderator_route"
    /\ resp.status = HTTP_403_FORBIDDEN
    /\ ValidSession(resp.req.access_token)
    /\ resp.req.access_token.role = "admin"
    /\ users[int_of(resp.req.access_token.sub)].role = "user"

AdminOps ==
    {"admin_stats", "admin_users", "admin_pdfs", "admin_delete_user",
     "admin_delete_pdf"}

\* C12: an /admin/* endpoint (stats, users, pdfs, delete user, delete pdf)
\* handles a request only when the role of the user the session resolves
\* to is admin, and answers 403 to every authenticated user whose role is
\* moderator or user, whatever the user's other attributes.
C12_AdminEndpointsByRole ==
    [][(/\ resp'.op \in AdminOps
        /\ ValidSession(resp'.req.access_token))
           => LET role == users[int_of(resp'.req.access_token.sub)].role
              IN  /\ resp'.status # HTTP_403_FORBIDDEN => role = "admin"
                  /\ role \in {"moderator", "user"}
                        => resp'.status = HTTP_403_FORBIDDEN]_vars

\* C13: every password-reset request the rate limiter admits gets the same
\* response, status 200 with the same body, whether or not the email
\* belongs to a registered user and whether or not storing the token or
\* sending the mail failed.
C13_ResetRequestUniform ==
    (resp.op = "request_password_reset"
        /\ resp.status # HTTP_429_TOO_MANY_REQUESTS)
       => resp = [op |-> "request_password_reset", req |-> resp.req,
                  status |-> HTTP_200_OK,
                  detail |-> "If your email is registered, you will receive a password reset link",
                  set_cookies |-> {}, del_cookies |-> {}, body |-> NoBody,
                  user |-> NoUser]

\* a request for a registered address whose token could not be stored was
\* answered like any other
C13_Witness ==
    /\ resp.op = "request_password_reset"
    /\ resp.status = HTTP_200_OK
    /\ EmailTaken(resp.req.email)
    /\ resp.req.smtp = "token_failed"

\* C14: when sending the verification mail fails, the register request is
\* still answered 201 with the created user and the new user row is stored;
\* when sending the reset mail fails, the password-reset request is still
\* answered with its success response.
C14_MailFailureSwallowed ==
    /\ (resp.op = "register" /\ resp.req.smtp = "send_failed")
          => /\ resp.status = HTTP_201_CREATED
             /\ resp.user = Len(users)
             /\ users[resp.user].email = resp.req.email
             /\ users[resp.user].username = resp.req.username
    /\ (resp.op = "request_password_reset" /\ resp.req.smtp = "send_failed")
          => /\ resp.status = HTTP_200_OK
             /\ resp.detail =
                   "If your email is registered, you will receive a password reset link"

\* a registration whose verification mail could not be sent was answered
\* 201, and the row and its verification token are stored
C14_Witness ==
    /\ resp.op = "register"
    /\ resp.req.smtp = "send_failed"
    /\ resp.status = HTTP_201_CREATED
    /\ \E v \in verification_tokens : users[v.user_id].email = resp.req.email

\* the requests of generate-questions that reach the generation loop
Generating ==
    /\ resp.op = "generate_questions"
    /\ get_current_user(resp.req.access_token)[1] = HTTP_200_OK
    /\ resp.req.vectorstore = "loaded"
    /\ resp.req.question_types # <<>>

CountOfType(questions, q_type) ==
    Cardinality({ j \in 1..Len(questions) : questions[j].question_type = q_type })

\* C15: a generate-questions request on an existing index with count n >= 0
\* and a non-empty type list answers 200 with exactly n questions, whatever
\* the generator returned for each slot and whatever the fragment pool; every
\* question has a requested type and the per-type counts differ by at most 1.
C15_ExactCount ==
    Generating =>
        /\ resp.status = HTTP_200_OK
        /\ Len(resp.body.questions) = resp.req.num_questions
        /\ \A j \in 1..Len(resp.body.questions) :
              \E k \in 1..Len(resp.req.question_types) :
                 resp.body.questions[j].question_type = resp.req.question_types[k]
        /\ \A k1, k2 \in 1..Len(resp.req.question_types) :
              CountOfType(resp.body.questions, resp.req.question_types[k1])
                 <= CountOfType(resp.body.questions, resp.req.question_types[k2]) + 1

C15_Witness ==
    /\ Generating
    /\ resp.req.num_questions = MaxQuestions
    /\ Len(resp.req.question_types) = 3
    /\ Len(resp.req.all_docs) = 1
    /\ \A j \in 1..MaxQuestions : resp.req.outputs[j] = "error"
    /\ Len(resp.body.questions) = MaxQuestions
    /\ CountOfType(resp.body.questions, "essay") = 2

\* C16: no two questions of one generate-questions response have the same
\* text, fallback questions included.
C16_DistinctQuestionTexts ==
    Generating =>
        \A j1, j2 \in 1..Len(resp.body.questions) :
            resp.body.questions[j1].question = resp.body.questions[j2].question
                => j1 = j2

\* C17: a refresh request that carries a CSRF cookie and echoes the same
\* value in a request header or a body field, with an unexpired, unrevoked
\* refresh token of an active user, is answered 200 with a new access token.
C17_EchoedCsrfRefreshSucceeds ==
    (/\ resp.op = "refresh"
     /\ resp.req.csrf_token # ""
     /\ resp.req.echo.via \in {"header", "body"}
     /\ resp.req.echo.value = resp.req.csrf_token
     /\ \E j \in RefreshRows :
           /\ LiveRefreshRow(j, resp.req.refresh_token)
           /\ refresh_tokens[j].user_id \in UserIds
           /\ users[refresh_tokens[j].user_id].is_active)
        => /\ resp.status = HTTP_200_OK
           /\ resp.body.access_token.present

\* C18: a successful refresh leaves every refresh-token row as it was, adds
\* and removes none, and sets no refresh_token cookie; and every refresh
\* presenting a passing CSRF pair and an unexpired, unrevoked token of an
\* active user succeeds, so the token serves again for as long as that holds.
C18_RefreshKeepsStore ==
    [][(resp = Idle /\ resp'.op = "refresh")
           => /\ resp'.status = HTTP_200_OK
                    => /\ refresh_tokens' = refresh_tokens
                       /\ users' = users
                       /\ now' = now
                       /\ "refresh_token" \notin resp'.set_cookies
                       /\ "refresh_token" \notin resp'.del_cookies
              /\ RefreshAllowed(resp'.req) => resp'.status = HTTP_200_OK]_vars

\* a refresh token issued at an earlier instant has been exchanged for a new
\* access token and its row is still unrevoked and unexpired
C18_Witness ==
    /\ resp.op = "refresh"
    /\ resp.status = HTTP_200_OK
    /\ now > 0
    /\ resp.body.access_token.exp = now + ACCESS_TOKEN_EXPIRE_MINUTES
    /\ \E j \in RefreshRows :
          /\ LiveRefreshRow(j, resp.req.refresh_token)
          /\ refresh_tokens[j].expires_at
                = REFRESH_TOKEN_EXPIRE_DAYS * HoursPerDay * MinutesPerHour

\* a row with its revoked flag left out
unflagged(row) ==
    [token |-> row.token, expires_at |-> row.expires_at, user_id |-> row.user_id]

\* C19: in every refresh-token store, revoke_all_user_refresh_tokens(U)
\* yields a store of the same rows in which every row of U is revoked, every
\* row of another user is as it was and no field other than revoked differs;
\* revoke_refresh_token(t) yields the same store with the one row holding t
\* revoked and every other row as it was.
C19_RevokeFrame ==
    /\ \A U \in 1..MaxUsers :
          LET after == revoke_all_user_refresh_tokens(refresh_tokens, U)
          IN  /\ Len(after) = Len(refresh_tokens)
              /\ \A j \in RefreshRows :
                    /\ unflagged(after[j]) = unflagged(refresh_tokens[j])
                    /\ refresh_tokens[j].user_id = U => after[j].revoked
                    /\ refresh_tokens[j].user_id # U
                          => after[j] = refresh_tokens[j]
    /\ \A t \in TokenValues :
          LET after == revoke_refresh_token(refresh_tokens, t)
          IN  /\ Len(after) = Len(refresh_tokens)
              /\ \A j \in RefreshRows :
                    /\ unflagged(after[j]) = unflagged(refresh_tokens[j])
                    /\ refresh_tokens[j].token = t => after[j].revoked
                    /\ refresh_tokens[j].token # t
                          => after[j] = refresh_tokens[j]

\* a password reset has revoked the user's refresh token, and revoking all
\* tokens of a user owning none leaves that store as it is
C19_Witness ==
    /\ resp.op = "reset_password"
    /\ resp.status = HTTP_200_OK
    /\ \E j \in RefreshRows :
          /\ refresh_tokens[j].user_id = resp.user
          /\ refresh_tokens[j].revoked
          /\ refresh_tokens[j].token \in hist_reset_revoked
    /\ revoke_all_user_refresh_tokens(refresh_tokens, InactiveUser)
          = refresh_tokens

\* an access token the server issued, not past its expiry, of a user whose
\* row exists and is active
IssuedAndCurrent(a) ==
    /\ a \in access_tokens
    /\ a.exp >= now
    /\ int_of(a.sub) \in UserIds
    /\ users[int_of(a.sub)].is_active

\* C20: in every state, an issued access token that is not past its expiry
\* and whose user row exists and is active resolves to that user, whatever
\* logouts, refresh-token revocations, password resets and password changes
\* came before; a request behind get_current_user presenting it is not
\* answered 401.
C20_AccessTokenNotRevocable ==
    /\ \A a \in access_tokens :
          IssuedAndCurrent(a)
             => get_current_user(a) = <<HTTP_200_OK, int_of(a.sub)>>
    /\ (resp.op \in SessionOps /\ IssuedAndCurrent(resp.req.access_token))
          => resp.status # HTTP_401_UNAUTHORIZED

\* after a password reset that changed the password and revoked every
\* refresh token of the user, the user's access token was accepted
C20_Witness ==
    /\ resp.op = "get_current_user_info"
    /\ resp.status = HTTP_200_OK
    /\ IssuedAndCurrent(resp.req.access_token)
    /\ hist_reset_revoked # {}
    /\ users[resp.user].hashed_password # get_password_hash("pw12345678")
    /\ \E j \in RefreshRows : refresh_tokens[j].user_id = resp.user
    /\ \A j \in RefreshRows :
          refresh_tokens[j].user_id = resp.user => refresh_tokens[j].revoked

\* the request asks for an email or a username that another row holds
TakenByAnother(user, email, username) ==
    \E i \in UserIds :
        /\ i # user
        /\ \/ email # Unset /\ users[i].email = email
           \/ username # Unset /\ users[i].username = username

\* C21: every register request and every profile update that asks for an
\* email or a username held by another user row is answered 400 or 409 and
\* leaves the user rows as they were, and after every step no two rows share
\* an email or a username.
C21_ConflictsRejected ==
    [][/\ (/\ resp = Idle
           /\ \/ /\ resp'.op = "register"
                 /\ TakenByAnother(NoUser, resp'.req.email, resp'.req.username)
              \/ /\ resp'.op = "update_current_user"
                 /\ ValidSession(resp'.req.access_token)
                 /\ TakenByAnother(int_of(resp'.req.access_token.sub),
                                   resp'.req.email, resp'.req.username))
          => /\ resp'.status \in {HTTP_400_BAD_REQUEST, 409}
             /\ users' = users
       /\ unique_columns(users')]_vars

\* C22: a logout presenting refresh token T answers 200 and deletes the
\* cookies access_token, refresh_token and csrf_token whatever T is, and
\* leaves every row holding T revoked and every other row as it was; a
\* revoked row stays revoked in every later step; and a refresh presenting a
\* token whose row is revoked, or that no row holds, fails with 401 and
\* mints nothing.
C22_LogoutRevokes ==
    [][/\ (resp = Idle /\ resp'.op = "logout")
             => /\ resp'.status = HTTP_200_OK
                /\ resp'.del_cookies
                      = {"access_token", "refresh_token", "csrf_token"}
                /\ Len(refresh_tokens') = Len(refresh_tokens)
                /\ \A j \in RefreshRows :
                      IF refresh_tokens[j].token = resp'.req.refresh_token
                      THEN refresh_tokens'[j]
                              = [refresh_tokens[j] EXCEPT !.revoked = TRUE]
                      ELSE refresh_tokens'[j] = refresh_tokens[j]
       /\ \A j \in RefreshRows :
             refresh_tokens[j].revoked
                => /\ j <= Len(refresh_tokens')
                   /\ refresh_tokens'[j] = refresh_tokens[j]
       /\ (/\ resp = Idle
           /\ resp'.op = "refresh"
           /\ \A j \in RefreshRows :
                 refresh_tokens[j].token = resp'.req.refresh_token
                    => refresh_tokens[j].revoked)
             => /\ resp'.status = HTTP_401_UNAUTHORIZED
                /\ resp'.body = NoBody
                /\ access_tokens' = access_tokens]_vars

\* after a logout, a refresh with a passing CSRF pair presenting the logged
\* out token, unexpired and of an active user, was refused
C22_Witness ==
    /\ resp.op = "refresh"
    /\ resp.status = HTTP_401_UNAUTHORIZED
    /\ resp.req.csrf_token # ""
    /\ resp.req.csrf_token = resp.req.x_csrf_token
    /\ hist_reset_revoked = {}
    /\ \E j \in RefreshRows :
          /\ refresh_tokens[j].token = resp.req.refresh_token
          /\ refresh_tokens[j].revoked
          /\ refresh_tokens[j].expires_at > now
          /\ users[refresh_tokens[j].user_id].is_active

\* C23: a request behind get_current_user that carries a valid access token
\* in the Authorization header or in the access_token cookie is
\* authenticated, as the user of the header token when that one is valid and
\* as the user of the cookie token otherwise.
C23_HeaderOrCookie ==
    (/\ resp.op = "get_current_user_info"
     /\ ValidSession(resp.req.token) \/ ValidSession(resp.req.access_token))
        => /\ resp.status = HTTP_200_OK
           /\ resp.user = IF ValidSession(resp.req.token)
                          THEN int_of(resp.req.token.sub)
                          ELSE int_of(resp.req.access_token.sub)

\* C24: per client address at most 5 login requests per 60-second window,
\* at most 3 registration requests per hour and at most 3 password-reset
\* requests per hour reach their handlers: while the record is kept, the
\* number of handler runs of each route since the clock last moved never
\* exceeds the limit declared for the route.
C24_LimitsEnforced ==
    hist_handled.recording =>
        /\ hist_handled.login <= LOGIN_TIMES
        /\ hist_handled.register <= REGISTRATION_TIMES
        /\ hist_handled.request_password_reset <= PASSWORD_RESET_TIMES

\* the limit of completed uploads the claim gives for the user's plan
\* (0 stands for no limit)
claimed_upload_limit(user) ==
    LET sub == active_subscription(user)
    IN  IF sub = 0 THEN FREE_TIER_PDFS
        ELSE IF subscriptions[sub].plan_name = "Free" THEN FREE_TIER_PDFS
        ELSE IF subscriptions[sub].plan_name = "Pro" THEN PRO_TIER_PDFS
        ELSE 0

\* C25: over any sequence of upload requests a user with no current
\* subscription or on the free plan completes at most 3 uploads and a pro
\* user at most 10: an upload succeeds only while the uploads the user has
\* completed are below the limit of the plan, and an enterprise user is
\* never answered 403.
C25_UploadLimit ==
    [][(resp = Idle /\ resp'.op = "upload_pdf") =>
          /\ (resp'.status = HTTP_201_CREATED
               /\ claimed_upload_limit(resp'.user) # 0)
                  => uploads_of(resp'.user) < claimed_upload_limit(resp'.user)
          /\ (resp'.status = HTTP_403_FORBIDDEN)
                  => claimed_upload_limit(resp'.user) # 0]_vars

\* the doc_index of every slot of the request answered last
slot_doc_indices ==
    generate_loops(resp.req.num_questions, resp.req.question_types,
                   resp.req.all_docs, resp.req.outputs).doc_indices

\* C26: whenever the fragment pool holds at least two fragments, any two
\* consecutive question slots (within one type and across the boundary
\* between two types) are generated from different fragments of the pool.
C26_ConsecutiveSlotsDiffer ==
    (Generating /\ Len(resp.req.all_docs) >= 2) =>
        \A s \in 1..(Len(slot_doc_indices) - 1) :
            slot_doc_indices[s] # slot_doc_indices[s + 1]

\* C27: starting from any state with at least one admin, no interleaving
\* of role-update requests reaches a state in which no user has role admin,
\* and an admin's request to change their own role is answered 400.
C27_AdminRemains ==
    /\ \E u \in UserIds : users[u].role = "admin"
    /\ \A c \in Clients :
          (/\ role_updates[c].pc = "done"
           /\ role_updates[c].user # NoUser
           /\ role_updates[c].user = role_updates[c].current_user)
              => role_updates[c].status = HTTP_400_BAD_REQUEST

\* C29: role-gate decisions use the role stored in the user row at the time
\* of the request, never the role claim of the access token: a request of a
\* user whose role was changed after the token was issued (the claim and
\* the row differ) is permitted or rejected according to the row.
C29_NewRoleDecides ==
    [][(/\ resp = Idle
        /\ resp'.op \in GateOps
        /\ ValidSession(resp'.req.access_token)
        /\ resp'.req.access_token.role
              # users[int_of(resp'.req.access_token.sub)].role)
           => LET role == users[int_of(resp'.req.access_token.sub)].role
              IN  /\ resp'.status = HTTP_200_OK
                     <=> role \in allowed_roles_of(resp'.op)
                  /\ resp'.status = HTTP_403_FORBIDDEN
                     <=> role \notin allowed_roles_of(resp'.op)]_vars

\* bob, promoted to admin by a finished role update after his login, passed
\* the admin gate with the token that still says "user"
C29_Witness ==
    /\ resp.op = "admin_route"
    /\ resp.status = HTTP_200_OK
    /\ resp.req.access_token.role = "user"
    /\ users[int_of(resp.req.access_token.sub)].role = "admin"
    /\ role_updates[1].pc = "done"
    /\ role_updates[1].status = HTTP_200_OK
    /\ role_updates[1].user = int_of(resp.req.access_token.sub)

\* the client holds a refresh cookie whose row is live and whose user is
\* active
HoldsLiveRefreshToken ==
    /\ sent_cookie("refresh_token") # NoToken
    /\ \E j \in RefreshRows :
          /\ LiveRefreshRow(j, sent_cookie("refresh_token"))
          /\ refresh_tokens[j].user_id \in UserIds
          /\ users[refresh_tokens[j].user_id].is_active

\* C28: a client that stores cookies and discards each one when its max-age
\* elapses, and that holds a non-expired, non-revoked refresh token of an
\* active user, obtains a new access token from every refresh request,
\* also after its access token has expired.
C28_RefreshAlwaysPossible ==
    [][(resp = Idle /\ resp'.op = "refresh" /\ HoldsLiveRefreshToken)
          => resp'.status = HTTP_200_OK]_vars

\* C30: each password-reset request for a registered user adds a reset-token
\* row without invalidating earlier ones, and a successful reset with token
\* T deletes only T's row: every other reset token remains in the table as
\* it was, and a reset with the token of an unexpired row of an existing
\* user succeeds.
C30_OtherResetTokensKept ==
    [][/\ (resp = Idle /\ resp'.op = "request_password_reset")
            => password_reset_tokens \subseteq password_reset_tokens'
       /\ (resp = Idle /\ resp'.op = "reset_password"
            /\ resp'.status = HTTP_200_OK)
            => /\ password_reset_tokens' =
                     { r \in password_reset_tokens :
                         r.token # resp'.req.token }
               /\ Cardinality(password_reset_tokens') =
                     Cardinality(password_reset_tokens) - 1
       /\ (resp = Idle /\ resp'.op = "reset_password"
            /\ \E r \in password_reset_tokens :
                  /\ r.token = resp'.req.token
                  /\ r.expires_at > now
                  /\ r.user_id \in UserIds)
            => resp'.status = HTTP_200_OK]_vars

\* a reset succeeded with one of two tokens mailed to the same user, and the
\* other one is still in the table, unexpired
C30_Witness ==
    /\ resp.op = "reset_password"
    /\ resp.status = HTTP_200_OK
    /\ \E r \in password_reset_tokens :
          /\ r.user_id = resp.user
          /\ r.token # resp.req.token
          /\ r.expires_at > now

\* both tokens mailed to one user changed the password, one after the other
C30_WitnessBoth ==
    /\ resp.op = "reset_password"
    /\ resp.status = HTTP_200_OK
    /\ Cardinality(hist_consumed) = 2
    /\ password_reset_tokens = {}

====
